---- MODULE Spec2Model ----
(***************************************************************************)
(* Model of the karaoke scoring core of kiliankoe/frank (frontend):        *)
(*   GameEngine        - session state machine, tick loop, scoring         *)
(*   AudioEngine       - media element, audio context                      *)
(*   MicrophoneManager - input channel router with shared stereo streams   *)
(*   NoteTracker       - chart timeline                                    *)
(*   Scorer            - note scoring                                      *)
(* Times are integer milliseconds.  Frequencies are integer Hz, -1 is the  *)
(* "no pitch" sentinel.  Semitone values are kept in tenths of a semitone  *)
(* and accuracies as exact fractions so that no rounding is introduced by  *)
(* the model.  Strings that the code slices (device and input ids) are     *)
(* sequences of tokens; the token "left" stands for the suffix ":left".    *)
(***************************************************************************)
EXTENDS Integers, Sequences, FiniteSets, TLC

(* ------------------------------ bounds --------------------------------- *)
\* player ids offered to addPlayer
MaxPlayers == 1
\* player ids offered to addPlayer in the track-assignment specification
MaxAssignPlayers == 3
\* start() calls that may be suspended at an await at the same time
MaxStartCalls == 1
\* physical capture streams the browser hands out in one run
MaxStreams == 2
\* samples kept per player and note
MaxSamples == 2
\* entries kept in a player's pitchHistory
MaxHistory == 1
\* frame-callback chains alive at the same time
MaxLoops == 1
\* highest reference count of a shared stream that is followed
MaxRefCount == 3
\* callback ids when two loops are to be told apart
MaxRaceLoops == 2
\* players of a session whose players share an input
MaxOrderPlayers == 2
\* samples handed to the scorer for one note
MaxScorerSamples == 3
\* length, in beats, of a note handed to the scorer
MaxNoteLength == 2
\* notes of a chart handed to the scorer or to a note tracker on its own
MaxChartNotes == 3
\* line breaks of a chart handed to a note tracker on its own
MaxLineBreaks == 3

\* getPitch calls made directly on the router in one run
MaxReads == 4
\* latest reading of performance.now() at a tick of a session whose players
\* share an input
MaxNow == 360

(* --------------------------- program constants ------------------------- *)
POINTS_PER_BEAT == 10
GOLDEN_MULTIPLIER == 2
HISTORY_WINDOW_MS == 5000
PITCH_HOLD_TIME_MS == 180
\* signal strengths (RMS) are kept in thousandths: 20 is 0.02
MIN_CONFIDENCE_THRESHOLD == 20

(* ------------------------------- helpers ------------------------------- *)
Abs(x) == IF x < 0 THEN 0 - x ELSE x

\* Math.round of the non-negative fraction num/den (halves round up)
RoundDiv(num, den) == (2 * num + den) \div (2 * den)

\* the "no note" answer of the timeline queries (null in the code)
NoNote == [index |-> -1]

\* Array.prototype.find over a sequence of notes, given the indices of the
\* elements that pass the test; NoNote when none does
FirstOf(s, hits) ==
    IF hits = {} THEN NoNote
    ELSE s[CHOOSE i \in hits : \A j \in hits : i <= j]

(* ------------------------------ pitch utils ---------------------------- *)
\* frequencyToMidi, 69 + 12 * log2(freq / 440), in tenths of a semitone,
\* tabulated for the tempered pitches C4, C#4, D4, D#4, E4, A4 and C5 and
\* for 292, 313 and 362 Hz
frequencyToMidi10(freq) ==
    IF freq <= 0 THEN 0
    ELSE CASE freq = 262 -> 600
           [] freq = 277 -> 610
           [] freq = 292 -> 619
           [] freq = 294 -> 620
           [] freq = 311 -> 630
           [] freq = 313 -> 631
           [] freq = 330 -> 640
           [] freq = 362 -> 656
           [] freq = 440 -> 690
           [] freq = 523 -> 720

\* the frequencies of the table
TablePitches == {262, 277, 292, 294, 311, 313, 330, 362, 440, 523}

ultrastarPitchToMidi10(pitch) == (pitch + 60) * 10

\* getPitchAccuracy, weight in tenths (10 = 1.0)
getPitchAccuracy10(detectedFreq, expectedPitch) ==
    IF detectedFreq <= 0 THEN 0
    ELSE LET d0 == Abs(frequencyToMidi10(detectedFreq)
                       - ultrastarPitchToMidi10(expectedPitch)) % 120
             diff == IF d0 > 60 THEN 120 - d0 ELSE d0
         IN  IF diff <= 5 THEN 10
             ELSE IF diff <= 15 THEN 9
             ELSE IF diff <= 25 THEN 7
             ELSE IF diff <= 35 THEN 4
             ELSE 0

(* ------------------------------ time utils ----------------------------- *)
\* beatToMs: gap + beat * (60000 / (bpm * 4)); the charts of the model use
\* tempi for which the division is exact
beatToMs(beat, bpm, gap) == gap + beat * (60000 \div (bpm * 4))

(* -------------------------------- Scorer ------------------------------- *)
\* a multiplier that forgets golden notes; the rap property must tell it
\* from the code's
NoteMultiplierFlat(note) == 1

NoteMultiplier(note) ==
    IF note.note_type = "golden" \/ note.note_type = "goldenrap"
    THEN GOLDEN_MULTIPLIER ELSE 1

NoteMaxPoints(note) == note.length * POINTS_PER_BEAT * NoteMultiplier(note)

ValidSamples(pitchSamples) == SelectSeq(pitchSamples, LAMBDA f : f > 0)

RECURSIVE TotalAccuracy10(_, _)
TotalAccuracy10(pitchSamples, pitch) ==
    IF pitchSamples = <<>> THEN 0
    ELSE getPitchAccuracy10(Head(pitchSamples), pitch)
         + TotalAccuracy10(Tail(pitchSamples), pitch)

\* isPitchMatch with the default tolerance of 2.5 semitones
isPitchMatch(detectedFreq, expectedPitch) ==
    IF detectedFreq <= 0 THEN FALSE
    ELSE LET diff == Abs(frequencyToMidi10(detectedFreq)
                         - ultrastarPitchToMidi10(expectedPitch)) % 120
         IN  diff <= 25 \/ diff >= 120 - 25

\* a scorer that counts a sample of a normal or golden note as matching or
\* not (isPitchMatch) and divides by all the samples, without weights and
\* without the participation bonus; the accuracy property of normal and
\* golden notes must tell it from the weighted scorer
calculateNoteScoreMatching(note, noteIndex, pitchSamples) ==
    LET maxPoints == NoteMaxPoints(note)
        valid     == Len(ValidSamples(pitchSamples))
        correct   == Len(SelectSeq(pitchSamples,
                                   LAMBDA f : f > 0 /\ isPitchMatch(f, note.pitch)))
    IN  IF note.note_type = "freestyle"
        THEN [noteIndex |-> noteIndex, maxPoints |-> 0, earnedPoints |-> 0,
              accNum |-> 1, accDen |-> 1]
        ELSE IF Len(pitchSamples) = 0
        THEN [noteIndex |-> noteIndex, maxPoints |-> maxPoints,
              earnedPoints |-> 0, accNum |-> 0, accDen |-> 1]
        ELSE IF note.note_type = "rap" \/ note.note_type = "goldenrap"
        THEN [noteIndex |-> noteIndex, maxPoints |-> maxPoints,
              earnedPoints |-> RoundDiv(maxPoints * valid, Len(pitchSamples)),
              accNum |-> valid, accDen |-> Len(pitchSamples)]
        ELSE [noteIndex |-> noteIndex, maxPoints |-> maxPoints,
              earnedPoints |-> RoundDiv(maxPoints * correct, Len(pitchSamples)),
              accNum |-> correct, accDen |-> Len(pitchSamples)]

\* a scorer that scores every note, freestyle included, as a rap note; the
\* freestyle property must tell it from the code's
calculateNoteScoreAsRap(note, noteIndex, pitchSamples) ==
    LET maxPoints == NoteMaxPoints(note)
        valid     == Len(ValidSamples(pitchSamples))
    IN  IF Len(pitchSamples) > 0
        THEN [noteIndex |-> noteIndex, maxPoints |-> maxPoints,
              earnedPoints |-> RoundDiv(maxPoints * valid, Len(pitchSamples)),
              accNum |-> valid, accDen |-> Len(pitchSamples)]
        ELSE [noteIndex |-> noteIndex, maxPoints |-> maxPoints,
              earnedPoints |-> 0, accNum |-> 0, accDen |-> 1]

\* a scorer without Math.min(1, ...): the participation bonus is added to
\* the mean weight and the sum is the accuracy; the bounds property must
\* tell it from the code's
calculateNoteScoreUncapped(note, noteIndex, pitchSamples) ==
    LET maxPoints == NoteMaxPoints(note)
        valid     == Len(ValidSamples(pitchSamples))
    IN  IF note.note_type = "freestyle"
        THEN [noteIndex |-> noteIndex, maxPoints |-> 0, earnedPoints |-> 0,
              accNum |-> 1, accDen |-> 1]
        ELSE IF note.note_type = "rap" \/ note.note_type = "goldenrap"
        THEN IF Len(pitchSamples) > 0
             THEN [noteIndex |-> noteIndex, maxPoints |-> maxPoints,
                   earnedPoints |-> RoundDiv(maxPoints * valid, Len(pitchSamples)),
                   accNum |-> valid, accDen |-> Len(pitchSamples)]
             ELSE [noteIndex |-> noteIndex, maxPoints |-> maxPoints,
                   earnedPoints |-> 0, accNum |-> 0, accDen |-> 1]
        ELSE IF Len(pitchSamples) = 0 \/ valid = 0
        THEN [noteIndex |-> noteIndex, maxPoints |-> maxPoints,
              earnedPoints |-> 0, accNum |-> 0, accDen |-> 1]
        ELSE [noteIndex |-> noteIndex, maxPoints |-> maxPoints,
              earnedPoints |->
                  RoundDiv(maxPoints * (TotalAccuracy10(pitchSamples, note.pitch) + valid),
                           10 * valid),
              accNum |-> TotalAccuracy10(pitchSamples, note.pitch) + valid,
              accDen |-> 10 * valid]

\* Scorer.calculateNoteScore.  accuracy is the fraction accNum / accDen.
\* pitchSamples is the sequence of the samples' frequencies (the scorer reads
\* no other field of a sample).
calculateNoteScore(note, noteIndex, pitchSamples) ==
    LET maxPoints == NoteMaxPoints(note)
        valid     == Len(ValidSamples(pitchSamples))
    IN  IF note.note_type = "freestyle"
        THEN [noteIndex |-> noteIndex, maxPoints |-> 0, earnedPoints |-> 0,
              accNum |-> 1, accDen |-> 1]
        ELSE IF note.note_type = "rap" \/ note.note_type = "goldenrap"
        THEN IF Len(pitchSamples) > 0
             THEN [noteIndex |-> noteIndex, maxPoints |-> maxPoints,
                   earnedPoints |-> RoundDiv(maxPoints * valid, Len(pitchSamples)),
                   accNum |-> valid, accDen |-> Len(pitchSamples)]
             ELSE [noteIndex |-> noteIndex, maxPoints |-> maxPoints,
                   earnedPoints |-> 0, accNum |-> 0, accDen |-> 1]
        ELSE IF Len(pitchSamples) = 0 \/ valid = 0
        THEN [noteIndex |-> noteIndex, maxPoints |-> maxPoints,
              earnedPoints |-> 0, accNum |-> 0, accDen |-> 1]
        ELSE LET \* pitchAccuracy + participationBonus = (total10 + valid) / (10 * valid)
                 rawNum == TotalAccuracy10(pitchSamples, note.pitch) + valid
                 rawDen == 10 * valid
                 capped == rawNum > rawDen
                 num    == IF capped THEN 1 ELSE rawNum
                 den    == IF capped THEN 1 ELSE rawDen
             IN  [noteIndex |-> noteIndex, maxPoints |-> maxPoints,
                  earnedPoints |-> RoundDiv(maxPoints * num, den),
                  accNum |-> num, accDen |-> den]

\* a maximum that counts freestyle notes like normal ones; the maximum
\* property must tell it from the code's
RECURSIVE calculateMaxScoreAll(_)
calculateMaxScoreAll(notes) ==
    IF notes = <<>> THEN 0
    ELSE NoteMaxPoints(Head(notes)) + calculateMaxScoreAll(Tail(notes))

RECURSIVE calculateMaxScore(_)
calculateMaxScore(notes) ==
    IF notes = <<>> THEN 0
    ELSE (IF Head(notes).note_type = "freestyle" THEN 0 ELSE NoteMaxPoints(Head(notes)))
         + calculateMaxScore(Tail(notes))

(* ------------------------------ NoteTracker ---------------------------- *)
\* processNotes: GameNote = Note + index (0-based) + startTimeMs + endTimeMs
processNotes(notes, bpm, gap) ==
    [i \in 1..Len(notes) |->
        [note_type   |-> notes[i].note_type,
         start_beat  |-> notes[i].start_beat,
         length      |-> notes[i].length,
         pitch       |-> notes[i].pitch,
         index       |-> i - 1,
         startTimeMs |-> beatToMs(notes[i].start_beat, bpm, gap),
         endTimeMs   |-> beatToMs(notes[i].start_beat + notes[i].length, bpm, gap)]]

\* createPhrase: the notes, the start of the first, the end of the last, and
\* the line break handed over
createPhrase(notes, lineBreak) ==
    [notes |-> notes, startTimeMs |-> notes[1].startTimeMs,
     endTimeMs |-> notes[Len(notes)].endTimeMs, lineBreak |-> lineBreak]

\* lineBreaks[lineBreakIndex - 1] ?? null, lineBreakIndex counting the line
\* breaks passed
LineBreakBefore(lineBreaks, lineBreakIndex) ==
    IF lineBreakIndex >= 1 /\ lineBreakIndex <= Len(lineBreaks)
    THEN lineBreaks[lineBreakIndex] ELSE [start_beat |-> -1]

\* the while loop of buildPhrases for one note: every line break at or
\* before the note's start beat is passed, the first of them closing the
\* phrase that is open
RECURSIVE PassLineBreaks(_, _, _)
PassLineBreaks(acc, note, lineBreaks) ==
    IF /\ acc.lineBreakIndex < Len(lineBreaks)
       /\ note.start_beat >= lineBreaks[acc.lineBreakIndex + 1].start_beat
    THEN PassLineBreaks(
             [phrases |-> IF Len(acc.currentPhraseNotes) > 0
                          THEN Append(acc.phrases,
                                      createPhrase(acc.currentPhraseNotes,
                                                   LineBreakBefore(lineBreaks,
                                                                   acc.lineBreakIndex)))
                          ELSE acc.phrases,
              currentPhraseNotes |-> << >>,
              lineBreakIndex |-> acc.lineBreakIndex + 1],
             note, lineBreaks)
    ELSE acc

\* the for loop of buildPhrases
RECURSIVE PhraseLoop(_, _, _)
PhraseLoop(acc, notes, lineBreaks) ==
    IF notes = << >> THEN acc
    ELSE LET passed == PassLineBreaks(acc, Head(notes), lineBreaks)
         IN  PhraseLoop([passed EXCEPT !.currentPhraseNotes = Append(@, Head(notes))],
                        Tail(notes), lineBreaks)

\* a buildPhrases that forgets the notes after the last line break passed;
\* the partition property must tell it from the code's
buildPhrasesNoTail(notes, lineBreaks) ==
    PhraseLoop([phrases |-> << >>, currentPhraseNotes |-> << >>,
                lineBreakIndex |-> 0], notes, lineBreaks).phrases

\* NoteTracker.buildPhrases
buildPhrases(notes, lineBreaks) ==
    IF Len(notes) = 0 THEN << >>
    ELSE LET acc == PhraseLoop([phrases |-> << >>, currentPhraseNotes |-> << >>,
                                lineBreakIndex |-> 0], notes, lineBreaks)
         IN  IF Len(acc.currentPhraseNotes) > 0
             THEN Append(acc.phrases,
                         createPhrase(acc.currentPhraseNotes,
                                      LineBreakBefore(lineBreaks, acc.lineBreakIndex)))
             ELSE acc.phrases

\* a getCurrentPhrase that answers with the last phrase whose window holds
\* timeMs; the window property must tell it from the code's
getCurrentPhraseLatest(phrases, timeMs) ==
    LET hits == {i \in 1..Len(phrases) :
                    /\ timeMs >= phrases[i].startTimeMs - 2000
                    /\ timeMs <= phrases[i].endTimeMs + 500}
    IN  IF hits = {} THEN NoNote
        ELSE phrases[CHOOSE i \in hits : \A j \in hits : j <= i]

\* NoteTracker.getCurrentPhrase: the first phrase that timeMs is no more than
\* 2000 ms ahead of and no more than 500 ms past; NoNote stands for null
getCurrentPhrase(phrases, timeMs) ==
    FirstOf(phrases,
            {i \in 1..Len(phrases) :
                /\ timeMs >= phrases[i].startTimeMs - 2000
                /\ timeMs <= phrases[i].endTimeMs + 500})

\* phrases.indexOf(phrase), counted from 1 (0 when it is not there)
IndexOfPhrase(phrases, phrase) ==
    LET hits == {i \in 1..Len(phrases) : phrases[i] = phrase}
    IN  IF hits = {} THEN 0 ELSE CHOOSE i \in hits : \A j \in hits : i <= j

\* a getNextPhrase that looks for the first phrase starting after timeMs
\* whether or not a phrase is current; the property of the next phrase must
\* tell it from the code's
getNextPhraseByStart(phrases, timeMs) ==
    FirstOf(phrases, {i \in 1..Len(phrases) : phrases[i].startTimeMs > timeMs})

\* NoteTracker.getNextPhrase: the phrase after the current one, or with no
\* current phrase the first one that starts after timeMs
getNextPhrase(phrases, timeMs) ==
    LET currentPhrase == getCurrentPhrase(phrases, timeMs)
        currentIndex  == IndexOfPhrase(phrases, currentPhrase)
    IN  IF currentPhrase # NoNote
        THEN IF currentIndex + 1 <= Len(phrases)
             THEN phrases[currentIndex + 1] ELSE NoNote
        ELSE FirstOf(phrases,
                     {i \in 1..Len(phrases) : phrases[i].startTimeMs > timeMs})

\* NoteTracker.getSongDuration
getSongDuration(gameNotes) ==
    IF Len(gameNotes) = 0 THEN 0 ELSE gameNotes[Len(gameNotes)].endTimeMs

\* NoteTracker.getCurrentNote: first note whose closed window holds timeMs
getCurrentNote(gameNotes, timeMs) ==
    FirstOf(gameNotes,
            {i \in 1..Len(gameNotes) :
                timeMs >= gameNotes[i].startTimeMs /\ timeMs <= gameNotes[i].endTimeMs})

\* NoteTracker.getNextNote: first note that starts strictly after timeMs
getNextNote(gameNotes, timeMs) ==
    FirstOf(gameNotes,
            {i \in 1..Len(gameNotes) : gameNotes[i].startTimeMs > timeMs})

(* -------------------------------- inputs ------------------------------- *)
\* A chart as delivered by the catalog (Song): notes of track 1, notes of
\* track 2 (empty unless a duet), tempo, gap, and the length of its audio.
\* The tempo makes one beat as long as the pitch-history window.  Track 1
\* holds two notes back to back (the second starts on the beat the first
\* ends) followed by a beat of silence.
Track1Notes ==
    << [note_type |-> "normal", start_beat |-> 0, length |-> 1, pitch |-> 0],
       [note_type |-> "golden", start_beat |-> 1, length |-> 1, pitch |-> 0] >>

Track2Notes ==
    << [note_type |-> "rap", start_beat |-> 1, length |-> 1, pitch |-> 0] >>

Solo == [id |-> "solo", notes |-> Track1Notes, notes_p2 |-> << >>,
         bpm |-> 3, gap |-> 0, durationMs |-> 15000]

Duet == [id |-> "duet", notes |-> Track1Notes, notes_p2 |-> Track2Notes,
         bpm |-> 3, gap |-> 0, durationMs |-> 15000]

\* one normal note, then a beat of rest
Round == [id |-> "round",
          notes |-> << [note_type |-> "normal", start_beat |-> 0, length |-> 1,
                        pitch |-> 0] >>,
          notes_p2 |-> << >>, bpm |-> 3, gap |-> 0, durationMs |-> 10000]

Songs == {Solo, Duet, Round}

\* a duet with rests longer than the skip lead: track 1 sings beat 0..1 and
\* beat 4..5, track 2 beat 3..4
Gapped == [id |-> "gapped",
           notes |-> << [note_type |-> "normal", start_beat |-> 0, length |-> 1,
                         pitch |-> 0],
                        [note_type |-> "normal", start_beat |-> 4, length |-> 1,
                         pitch |-> 0] >>,
           notes_p2 |-> << [note_type |-> "normal", start_beat |-> 3, length |-> 1,
                            pitch |-> 0] >>,
           bpm |-> 3, gap |-> 0, durationMs |-> 25000]

\* the positions a caller seeks to in it
GappedSeekTargets == {t \in 0..Gapped.durationMs : t % beatToMs(1, 3, 0) = 0}

NoSong == [id |-> "none"]

\* the media clock is observed once per beat of the charts above
ClockStepMs == beatToMs(1, 3, 0)

LongestMediaMs ==
    CHOOSE d \in {sg.durationMs : sg \in Songs} :
        \A sg \in Songs : sg.durationMs <= d

\* the positions a caller seeks to
SeekTargets == {t \in 0..LongestMediaMs : t % ClockStepMs = 0}

\* what a connected input reports on a tick: no pitch, or C4 (on pitch for
\* the charts above)
Pitches == {-1, 262}

\* a room in which nobody sings
Silence == {-1}

\* what the shared input's detector reports for a frame: no pitch, C4, or
\* 362 Hz (with C4 before it, the smoothed pitches stay whole numbers of Hz
\* inside the table for two reads)
OrderFrames == {-1, 262, 362}

\* capture devices
DeviceIds == { <<"A">>, <<"B">> }

\* the microphone ids players are bound to: a mono device id, and the
\* stereo input id "A:left"
PlayerMicIds == { <<"A">>, <<"A", "left">> }

Channels == {"mono", "left", "right"}

PlayerIds == 1..MaxPlayers

AssignPlayerIds == 1..MaxAssignPlayers

OrderPlayerIds == 1..MaxOrderPlayers

\* the notes handed to the scorer: every type, lengths from 0 up to
\* MaxNoteLength, C4 and C5
ScorerNotes ==
    [note_type : {"normal", "golden", "rap", "goldenrap", "freestyle"},
     start_beat : {0}, length : 0..MaxNoteLength, pitch : {0, 12}]

\* the sample frequencies handed to the scorer: silence, then 0, 1, 2, 3 and
\* 4 semitones above C4, and C5
ScorerFrequencies == {-1, 262, 277, 294, 311, 330, 523}

\* no result yet
NoResult == [noteIndex |-> -1]

StartSlots == 1..MaxStartCalls

(* -------------------------------- state -------------------------------- *)
VARIABLES
    state,              \* GameEngine.state
    song,               \* GameEngine.song
    noteTrackers,       \* GameEngine.noteTrackers: track -> GameNote sequence
    players,            \* GameEngine.players, in Map insertion order
    playerTracks,       \* GameEngine.playerTracks: playerId -> track
    currentNoteIndices, \* GameEngine.currentNoteIndices: playerId -> index or -1
    notePitchSamples,   \* GameEngine.notePitchSamples: playerId -> index -> frequencies
    animationFrameId,   \* GameEngine.animationFrameId: a pending callback or 0 (null)
    audioElement,       \* AudioEngine.audioElement: NoAudio or the media element
    ctxState,           \* AudioEngine.audioContext.state
    streams,            \* MicrophoneManager.streams: inputId -> MicrophoneStream
    sharedStreams,      \* MicrophoneManager.sharedStreams: deviceId -> {stream, refCount}
    phys,               \* the browser's capture streams, in the order they were opened
    rafPending,         \* the browser's pending animation-frame callbacks
    loadCall,           \* the loadSong call: its position at the await, or its outcome
    startCalls,         \* the start() calls suspended at an await
    routerCall,         \* a connectMicrophone call made directly on the router
    secondCall,         \* a connectMicrophone call made while another is in flight
    loopPool,           \* the callback ids requestAnimationFrame hands out
    micAtCall,          \* the router as the pending direct connect found it
    pitchStates,        \* MicrophoneManager.pitchStates: inputId -> smoothing state
    perfNow,            \* the latest reading of performance.now()
    pitchReads,         \* the getPitch calls made directly on the router, in
                        \* order: the frame, the clock reading, the pitch returned
    scorerCall,         \* a call of Scorer.calculateNoteScore: the note, the samples
                        \* of the note, and the result once it has returned
    chartCall,          \* a chart handed to Scorer.calculateMaxScore or to a new
                        \* NoteTracker: its notes and line breaks, and what came back
    reversed,           \* the same session with update() visiting the players in
                        \* the opposite order: its pitchStates and, per player,
                        \* the player record, in-flight note index and buffers
    thrown,             \* error the latest step threw or rejected with, else "none"
    notified,           \* state the latest step passed to onStateChange, else "none"
    halt,               \* "stop" / "dispose" while no start() or resume() was called since
    tickedHalted,       \* the latest step was an update() that ran while halt was set
    inFlightAtHalt,     \* the players whose note was in flight at the latest stop(),
                        \* dispose() or end of the media, while no update() ran since
    lastTrackArg        \* track argument of the most recent addPlayer (0 = omitted)

engineVars == << state, song, noteTrackers, players, playerTracks,
                 currentNoteIndices, notePitchSamples, animationFrameId >>

playerVars == << players, playerTracks, currentNoteIndices, notePitchSamples >>

audioVars == << audioElement, ctxState >>

micVars == << streams, sharedStreams, phys >>

callVars == << loadCall, startCalls, routerCall, secondCall >>

smoothVars == << pitchStates, reversed, perfNow, pitchReads >>

pureVars == << scorerCall, chartCall >>

vars == << engineVars, audioVars, micVars, rafPending, callVars, smoothVars,
           pureVars, loopPool, micAtCall, inFlightAtHalt,
           thrown, notified, halt, tickedHalted, lastTrackArg >>

NoAudio == [loaded |-> FALSE]

\* a start() call: where it is suspended, the players its iteration has
\* reached, and the connectMicrophone call it is waiting for
IdleStart == [pc |-> "idle", visited |-> {}, deviceId |-> << >>,
              channel |-> "mono", stream |-> 0]

\* a connectMicrophone call: where it is suspended and its local variables
\* no direct connect is pending
NoMic == [pending |-> FALSE]

IdleConn == [pc |-> "idle", deviceId |-> << >>, channel |-> "mono", stream |-> 0]

InitEngine ==
    /\ state = "idle"
    /\ song = NoSong
    /\ noteTrackers = << >>
    /\ players = << >>
    /\ playerTracks = << >>
    /\ currentNoteIndices = << >>
    /\ notePitchSamples = << >>
    /\ animationFrameId = 0
    /\ audioElement = NoAudio
    /\ ctxState = "suspended"
    /\ streams = << >>
    /\ sharedStreams = << >>
    /\ phys = << >>
    /\ rafPending = {}
    /\ loadCall = "none"
    /\ startCalls = [s \in StartSlots |-> IdleStart]
    /\ routerCall = IdleConn
    /\ secondCall = IdleConn
    /\ pitchStates = << >>
    /\ reversed = [pitchStates |-> << >>, scoring |-> << >>]
    /\ perfNow = 0
    /\ pitchReads = << >>
    /\ inFlightAtHalt = {}
    /\ thrown = "none"
    /\ notified = "none"
    /\ halt = "none"
    /\ tickedHalted = FALSE
    /\ lastTrackArg = 0

\* the session after construction; requestAnimationFrame has MaxLoops ids
InitSession == InitEngine /\ loopPool = 1..MaxLoops /\ micAtCall = NoMic

\* a scorer nothing was handed to
IdleScorer == [note |-> NoNote, samples |-> << >>, result |-> NoResult]

\* no tracker built yet
NoTracker == [built |-> FALSE]

\* no chart handed over: no notes, no line breaks, nothing returned
IdleChart == [notes |-> << >>, lineBreaks |-> << >>, maxScore |-> -1,
              tracker |-> NoTracker, query |-> [op |-> "none"]]

Init == InitSession /\ scorerCall = IdleScorer /\ chartCall = IdleChart

\* the same session where requestAnimationFrame has MaxRaceLoops ids, enough
\* for two loops to be scheduled side by side
InitLoops ==
    /\ InitEngine
    /\ loopPool = 1..MaxRaceLoops
    /\ micAtCall = NoMic
    /\ scorerCall = IdleScorer
    /\ chartCall = IdleChart

\* a step that throws nothing and is no update()
Quiet == thrown' = "none" /\ tickedHalted' = FALSE

\* setState: the state is stored and onStateChange is called with it
setState(newState) == state' = newState /\ notified' = newState

(* ------------------------- finite maps (JS Map) ------------------------ *)
\* Map.set
MapSet(m, k, v) == [x \in (DOMAIN m) \cup {k} |-> IF x = k THEN v ELSE m[x]]

\* Map.delete
MapDelete(m, k) == [x \in (DOMAIN m) \ {k} |-> m[x]]

Has(m, k) == k \in DOMAIN m

(* --------------------------- MicrophoneManager ------------------------- *)
\* getMicrophoneInputId: deviceId for mono, deviceId + ":" + channel otherwise
getMicrophoneInputId(deviceId, channel) ==
    IF channel = "mono" THEN deviceId ELSE Append(deviceId, channel)

\* id ends in ":" followed by suffix: a last segment with something before it
EndsWith(id, suffix) == Len(id) >= 2 /\ id[Len(id)] = suffix

\* parseMicrophoneInputId: strips a trailing ":left" / ":right"
parseMicrophoneInputId(inputId) ==
    IF EndsWith(inputId, "left")
    THEN [deviceId |-> SubSeq(inputId, 1, Len(inputId) - 1), channel |-> "left"]
    ELSE IF EndsWith(inputId, "right")
    THEN [deviceId |-> SubSeq(inputId, 1, Len(inputId) - 1), channel |-> "right"]
    ELSE [deviceId |-> inputId, channel |-> "mono"]

RequestStereo(channel) == channel = "left" \/ channel = "right"

\* the router's own state as one value
Mic == [streams |-> streams, sharedStreams |-> sharedStreams, phys |-> phys]

\* MediaStreamTrack.stop() on every track of capture stream i
StopTracks(ph, i) == [ph EXCEPT ![i].live = FALSE]

LiveStreams(ph) == {i \in 1..Len(ph) : ph[i].live}

\* a connectMicrophone that does not look for the input among the connected
\* ones; the idempotence property must tell it from the code's
ConnectBeginAgain(m, deviceId, channel) ==
    IF RequestStereo(channel) /\ Has(m.sharedStreams, deviceId)
    THEN [call |-> [pc |-> "init", deviceId |-> deviceId, channel |-> channel,
                    stream |-> m.sharedStreams[deviceId].stream],
          mic  |-> [m EXCEPT !.sharedStreams[deviceId].refCount = @ + 1]]
    ELSE [call |-> [pc |-> "gum", deviceId |-> deviceId, channel |-> channel,
                    stream |-> 0],
          mic  |-> m]

\* a connectMicrophone that reuses a shared stream without counting the
\* reference; the reference-count property must tell it from the code's
ConnectBeginNoCount(m, deviceId, channel) ==
    LET inputId == getMicrophoneInputId(deviceId, channel)
    IN  IF Has(m.streams, inputId)
        THEN [call |-> [pc |-> "ret", deviceId |-> deviceId, channel |-> channel,
                        stream |-> m.streams[inputId].stream],
              mic  |-> m]
        ELSE IF RequestStereo(channel) /\ Has(m.sharedStreams, deviceId)
        THEN [call |-> [pc |-> "init", deviceId |-> deviceId, channel |-> channel,
                        stream |-> m.sharedStreams[deviceId].stream],
              mic  |-> m]
        ELSE [call |-> [pc |-> "gum", deviceId |-> deviceId, channel |-> channel,
                        stream |-> 0],
              mic  |-> m]

\* connectMicrophone up to its first await.  Answers the position the call is
\* suspended at and the router state it leaves:
\*   "ret"  - the input exists, the existing object is returned
\*   "init" - a shared stream was reused (refCount++), waiting for pitchDetector.init()
\*   "gum"  - waiting for getUserMedia
ConnectBegin(m, deviceId, channel) ==
    LET inputId == getMicrophoneInputId(deviceId, channel)
    IN  IF Has(m.streams, inputId)
        THEN [call |-> [pc |-> "ret", deviceId |-> deviceId, channel |-> channel,
                        stream |-> m.streams[inputId].stream],
              mic  |-> m]
        ELSE IF RequestStereo(channel) /\ Has(m.sharedStreams, deviceId)
        THEN [call |-> [pc |-> "init", deviceId |-> deviceId, channel |-> channel,
                        stream |-> m.sharedStreams[deviceId].stream],
              mic  |-> [m EXCEPT !.sharedStreams[deviceId].refCount = @ + 1]]
        ELSE [call |-> [pc |-> "gum", deviceId |-> deviceId, channel |-> channel,
                        stream |-> 0],
              mic  |-> m]

\* getUserMedia resolved: a new capture stream is live; a stereo request
\* records it as the device's shared stream with refCount 1.  The call goes on
\* to await pitchDetector.init().
ConnectGotStream(m, call) ==
    LET sid == Len(m.phys) + 1
        ph  == Append(m.phys, [deviceId |-> call.deviceId,
                               stereo   |-> RequestStereo(call.channel),
                               live     |-> TRUE])
    IN  [call |-> [call EXCEPT !.pc = "init", !.stream = sid],
         mic  |-> IF RequestStereo(call.channel)
                  THEN [m EXCEPT !.phys = ph,
                                 !.sharedStreams =
                                     MapSet(@, call.deviceId,
                                            [stream |-> sid, refCount |-> 1])]
                  ELSE [m EXCEPT !.phys = ph]]

\* pitchDetector.init() resolved: the input is registered
ConnectFinish(m, call) ==
    [m EXCEPT !.streams =
        MapSet(@, getMicrophoneInputId(call.deviceId, call.channel),
               [deviceId |-> call.deviceId, channel |-> call.channel,
                stream |-> call.stream])]

\* a disconnectMicrophone that stops the shared capture as soon as one channel
\* goes, whatever the count; the reference-count property must tell it from
\* the code's
disconnectMicrophoneEager(m, inputId) ==
    IF ~Has(m.streams, inputId) THEN m
    ELSE LET micStream == m.streams[inputId]
             parsed    == parseMicrophoneInputId(inputId)
             m1 == IF parsed.channel # "mono"
                   THEN IF Has(m.sharedStreams, parsed.deviceId)
                        THEN LET shared == m.sharedStreams[parsed.deviceId]
                             IN  [m EXCEPT
                                    !.phys = StopTracks(@, shared.stream),
                                    !.sharedStreams = MapDelete(@, parsed.deviceId)]
                        ELSE m
                   ELSE [m EXCEPT !.phys = StopTracks(@, micStream.stream)]
         IN  [m1 EXCEPT !.streams = MapDelete(@, inputId)]

\* disconnectMicrophone(inputId)
disconnectMicrophone(m, inputId) ==
    IF ~Has(m.streams, inputId) THEN m
    ELSE LET micStream == m.streams[inputId]
             parsed    == parseMicrophoneInputId(inputId)
             m1 == IF parsed.channel # "mono"
                   THEN IF Has(m.sharedStreams, parsed.deviceId)
                        THEN LET shared == m.sharedStreams[parsed.deviceId]
                             IN  IF shared.refCount - 1 <= 0
                                 THEN [m EXCEPT
                                         !.phys = StopTracks(@, shared.stream),
                                         !.sharedStreams = MapDelete(@, parsed.deviceId)]
                                 ELSE [m EXCEPT
                                         !.sharedStreams[parsed.deviceId].refCount = @ - 1]
                        ELSE m
                   ELSE [m EXCEPT !.phys = StopTracks(@, micStream.stream)]
         IN  [m1 EXCEPT !.streams = MapDelete(@, inputId)]

RECURSIVE DisconnectEach(_, _)
DisconnectEach(m, ids) ==
    IF ids = {} THEN m
    ELSE LET id == CHOOSE x \in ids : TRUE
         IN  DisconnectEach(disconnectMicrophone(m, id), ids \ {id})

\* disconnectAll: disconnectMicrophone for every key of streams (the result
\* does not depend on the order of the keys)
disconnectAll(m) == DisconnectEach(m, DOMAIN m.streams)

\* a getPitch that reports what the room hears for any input id, connected
\* or not; the property of unconnected players must tell it from the code's
getPitchAnyInput(inputId, heard) == heard

\* getPitch as the session sees it: -1 for an input that is not connected,
\* otherwise what the tracker reports for the frame, one of `heard` (the
\* audio is an input to the model)
getPitchChoices(inputId, heard) ==
    IF Has(streams, inputId) THEN heard ELSE {-1}

(* ------------------------------ AudioEngine ---------------------------- *)
\* loadAudio: a fresh media element, paused at 0, still loading
NewAudio(sg) ==
    [loaded |-> TRUE, status |-> "loading", paused |-> TRUE, currentTime |-> 0,
     durationMs |-> sg.durationMs, endedHandler |-> FALSE]

\* AudioEngine.play: audioElement?.play().  An element that failed to load
\* cannot play; one that has ended restarts from 0.
AudioPlay(a) ==
    IF ~a.loaded \/ a.status = "error" THEN a
    ELSE [a EXCEPT !.paused = FALSE,
                   !.currentTime = IF @ >= a.durationMs THEN 0 ELSE @]

\* AudioEngine.pause: audioElement?.pause()
AudioPause(a) == IF a.loaded THEN [a EXCEPT !.paused = TRUE] ELSE a

\* AudioEngine.stop: pause and rewind to 0
AudioStop(a) ==
    IF a.loaded THEN [a EXCEPT !.paused = TRUE, !.currentTime = 0] ELSE a

\* AudioEngine.getCurrentTime: (audioElement?.currentTime ?? 0) * 1000
getCurrentTime == IF audioElement.loaded THEN audioElement.currentTime ELSE 0

(* ------------------------- GameEngine: the loop ------------------------ *)
\* the ids a pending frame callback can have
LoopIds == loopPool

FreeLoops == LoopIds \ rafPending

\* startGameLoop: requestAnimationFrame(loop) and remember its id
startGameLoop(pending) ==
    LET c == CHOOSE x \in LoopIds \ pending : TRUE
    IN  [rafPending |-> pending \cup {c}, animationFrameId |-> c]

\* stopGameLoop: cancel the remembered callback, if any, and forget it
stopGameLoop ==
    IF animationFrameId # 0
    THEN [rafPending |-> rafPending \ {animationFrameId}, animationFrameId |-> 0]
    ELSE [rafPending |-> rafPending, animationFrameId |-> animationFrameId]

(* ----------------------- GameEngine: players --------------------------- *)
PlayerIdSet == {players[i].id : i \in 1..Len(players)}

PlayerIndex(id) == CHOOSE i \in 1..Len(players) : players[i].id = id

PlayerOf(id) == players[PlayerIndex(id)]

\* the track addPlayer binds when none is given
DefaultTrack ==
    IF Len(players) = 0 THEN 1
    ELSE IF Has(noteTrackers, 2) THEN 2 ELSE 1

\* track ?? default, 0 standing for an omitted argument
AssignedTrack(track) == IF track # 0 THEN track ELSE DefaultTrack

NewPlayer(id, microphoneId) ==
    [id |-> id, microphoneId |-> microphoneId, score |-> 0, currentPitch |-> -1,
     pitchHistory |-> << >>, noteScores |-> << >>]

\* addPlayer(id, microphoneId, track?).  Players are added under ids that
\* are not in use.
AddPlayer(id, microphoneId, track) ==
    /\ id \notin PlayerIdSet
    /\ players' = Append(players, NewPlayer(id, microphoneId))
    /\ playerTracks' = MapSet(playerTracks, id, AssignedTrack(track))
    /\ currentNoteIndices' = MapSet(currentNoteIndices, id, -1)
    /\ notePitchSamples' = MapSet(notePitchSamples, id, << >>)
    /\ lastTrackArg' = track
    /\ Quiet
    /\ notified' = "none"
    /\ UNCHANGED << state, song, noteTrackers, animationFrameId, audioVars,
                    micVars, rafPending, callVars, halt >>
    /\ UNCHANGED << smoothVars, pureVars, loopPool, micAtCall, inFlightAtHalt >>

\* removePlayer(id).  An iteration over players.values() that is suspended
\* in start() no longer reaches the player.
RemovePlayer(id) ==
    /\ id \in PlayerIdSet
    /\ players' = SelectSeq(players, LAMBDA pl : pl.id # id)
    /\ playerTracks' = MapDelete(playerTracks, id)
    /\ currentNoteIndices' = MapDelete(currentNoteIndices, id)
    /\ notePitchSamples' = MapDelete(notePitchSamples, id)
    /\ startCalls' = [s \in StartSlots |->
                        [startCalls[s] EXCEPT !.visited = @ \ {id}]]
    /\ Quiet
    /\ notified' = "none"
    /\ UNCHANGED << state, song, noteTrackers, animationFrameId, audioVars,
                    micVars, rafPending, loadCall, routerCall, secondCall, halt,
                    lastTrackArg >>
    /\ UNCHANGED << smoothVars, pureVars, loopPool, micAtCall, inFlightAtHalt >>

(* ----------------------------- the event loop -------------------------- *)
\* A start() call awaiting a promise that is settled already (resume() of a
\* context that is not suspended, connectMicrophone of an input that exists)
\* continues in a microtask: the task that called start() may still make
\* calls, but no event (media, animation frame, getUserMedia, wasm) is
\* dispatched before the continuation has run.
MicrotaskPending == \E s \in StartSlots : startCalls[s].pc \in {"resume", "ret"}

(* ----------------------- GameEngine: loadSong -------------------------- *)
\* loadSong up to its await: state loading, song kept, media element created.
\* A session loads one song.
LoadSong(sg) ==
    /\ state = "idle"
    /\ loadCall = "none"
    /\ setState("loading")
    /\ song' = sg
    /\ audioElement' = NewAudio(sg)
    /\ loadCall' = "waiting"
    /\ Quiet
    /\ UNCHANGED << noteTrackers, playerVars, animationFrameId, ctxState,
                    micVars, rafPending, startCalls, routerCall, secondCall, halt,
                    lastTrackArg >>
    /\ UNCHANGED << smoothVars, pureVars, loopPool, micAtCall, inFlightAtHalt >>

\* the trackers loadSong builds once the media can play through
BuildTrackers(sg) ==
    LET t1 == MapSet(<< >>, 1, processNotes(sg.notes, sg.bpm, sg.gap))
    IN  IF Len(sg.notes_p2) > 0
        THEN MapSet(t1, 2, processNotes(sg.notes_p2, sg.bpm, sg.gap))
        ELSE t1

\* "canplaythrough": trackers are bound, the ended handler installed, state ready
LoadResolve ==
    /\ ~MicrotaskPending
    /\ loadCall = "waiting"
    /\ audioElement.loaded
    /\ noteTrackers' = BuildTrackers(song)
    /\ audioElement' = [audioElement EXCEPT !.status = "ok", !.endedHandler = TRUE]
    /\ setState("ready")
    /\ loadCall' = "resolved"
    /\ Quiet
    /\ UNCHANGED << song, playerVars, animationFrameId, ctxState, micVars,
                    rafPending, startCalls, routerCall, secondCall, halt, lastTrackArg >>
    /\ UNCHANGED << smoothVars, pureVars, loopPool, micAtCall, inFlightAtHalt >>

\* "error": loadSong rejects; nothing after the await runs
LoadReject ==
    /\ ~MicrotaskPending
    /\ loadCall = "waiting"
    /\ audioElement.loaded
    /\ audioElement' = [audioElement EXCEPT !.status = "error"]
    /\ loadCall' = "rejected"
    /\ thrown' = "Failed to load audio"
    /\ tickedHalted' = FALSE
    /\ notified' = "none"
    /\ UNCHANGED << engineVars, ctxState, micVars, rafPending, startCalls,
                    routerCall, secondCall, halt, lastTrackArg >>
    /\ UNCHANGED << smoothVars, pureVars, loopPool, micAtCall, inFlightAtHalt >>

(* ------------------------- GameEngine: start() ------------------------- *)
\* a guard that also lets a finished session start; the start() property
\* must tell it from the code's guard
CanStartLax == state = "ready" \/ state = "paused" \/ state = "finished"

\* the guard of start(): "Game not ready to start" unless ready or paused
CanStart == state = "ready" \/ state = "paused"

\* the next player connectPlayerMicrophones' iteration over players.values()
\* reaches, 0 when the iteration is over
NextToConnect(visited) ==
    LET rest == {i \in 1..Len(players) : players[i].id \notin visited}
    IN  IF rest = {} THEN 0
        ELSE players[CHOOSE i \in rest : \A j \in rest : i <= j].id

\* What a start() call does when one of its awaits settles, with m the router
\* state at that moment: connectMicrophone(player.microphoneId) for the next
\* player, up to that call's await; or, the players exhausted, play(),
\* setState("playing") and startGameLoop().
ContinueStart(s, visited, m) ==
    LET p == NextToConnect(visited)
    IN  IF p # 0
        THEN LET r == ConnectBegin(m, PlayerOf(p).microphoneId, "mono")
             IN  /\ startCalls' = [startCalls EXCEPT ![s] =
                        [pc |-> r.call.pc, visited |-> visited \cup {p},
                         deviceId |-> r.call.deviceId, channel |-> r.call.channel,
                         stream |-> r.call.stream]]
                 /\ streams' = r.mic.streams
                 /\ sharedStreams' = r.mic.sharedStreams
                 /\ phys' = r.mic.phys
                 /\ notified' = "none"
                 /\ UNCHANGED << state, audioElement, rafPending, animationFrameId >>
        ELSE /\ FreeLoops # {}
             /\ startCalls' = [startCalls EXCEPT ![s] = IdleStart]
             /\ streams' = m.streams
             /\ sharedStreams' = m.sharedStreams
             /\ phys' = m.phys
             /\ audioElement' = AudioPlay(audioElement)
             /\ setState("playing")
             /\ rafPending' = startGameLoop(rafPending).rafPending
             /\ animationFrameId' = startGameLoop(rafPending).animationFrameId

\* what every step of a suspended start() call leaves alone
StartFrame ==
    /\ Quiet
    /\ UNCHANGED << song, noteTrackers, playerVars, loadCall, routerCall, secondCall, halt,
                    lastTrackArg >>
    /\ UNCHANGED << smoothVars, pureVars, loopPool, micAtCall, inFlightAtHalt >>

\* start(): throws unless ready or paused, otherwise runs to
\* "await this.audioEngine.resume()", which awaits audioContext.resume()
\* when the context is suspended
StartCall(s) ==
    /\ startCalls[s].pc = "idle"
    /\ IF CanStart
       THEN /\ startCalls' = [startCalls EXCEPT ![s].pc =
                                 IF ctxState = "suspended" THEN "ctxresume"
                                 ELSE "resume"]
            /\ thrown' = "none"
            /\ halt' = "none"
       ELSE /\ thrown' = "Game not ready to start"
            /\ UNCHANGED << startCalls, halt >>
    /\ tickedHalted' = FALSE
    /\ notified' = "none"
    /\ UNCHANGED << engineVars, audioVars, micVars, rafPending, loadCall,
                    routerCall, secondCall, lastTrackArg >>
    /\ UNCHANGED << smoothVars, pureVars, loopPool, micAtCall, inFlightAtHalt >>

\* audioEngine.resume() settled: a suspended context is running now
StartResumeDone(s) ==
    /\ startCalls[s].pc \in {"resume", "ctxresume"}
    /\ startCalls[s].pc = "ctxresume" => (ctxState # "closed" /\ ~MicrotaskPending)
    /\ ctxState' = IF startCalls[s].pc = "ctxresume" /\ ctxState = "suspended"
                   THEN "running" ELSE ctxState
    /\ ContinueStart(s, {}, Mic)
    /\ StartFrame

\* audioContext.resume() rejects because the context was closed meanwhile:
\* start() rejects at its first await
StartResumeFail(s) ==
    /\ ~MicrotaskPending
    /\ startCalls[s].pc = "ctxresume"
    /\ ctxState = "closed"
    /\ startCalls' = [startCalls EXCEPT ![s] = IdleStart]
    /\ thrown' = "resume rejected"
    /\ tickedHalted' = FALSE
    /\ notified' = "none"
    /\ UNCHANGED << engineVars, audioVars, micVars, rafPending, loadCall,
                    routerCall, secondCall, halt, lastTrackArg >>
    /\ UNCHANGED << smoothVars, pureVars, loopPool, micAtCall, inFlightAtHalt >>

\* connectMicrophone returned the existing input
StartConnRet(s) ==
    /\ startCalls[s].pc = "ret"
    /\ ContinueStart(s, startCalls[s].visited, Mic)
    /\ UNCHANGED ctxState
    /\ StartFrame

\* getUserMedia resolved for the player being connected; the call goes on to
\* await pitchDetector.init()
StartGumResolve(s) ==
    /\ ~MicrotaskPending
    /\ startCalls[s].pc = "gum"
    /\ Len(phys) < MaxStreams
    /\ LET r == ConnectGotStream(Mic, startCalls[s])
       IN  /\ startCalls' = [startCalls EXCEPT ![s] =
                  [pc |-> r.call.pc, visited |-> startCalls[s].visited,
                   deviceId |-> r.call.deviceId, channel |-> r.call.channel,
                   stream |-> r.call.stream]]
           /\ streams' = r.mic.streams
           /\ sharedStreams' = r.mic.sharedStreams
           /\ phys' = r.mic.phys
    /\ UNCHANGED << state, audioElement, rafPending, animationFrameId, ctxState >>
    /\ StartFrame
    /\ notified' = "none"

\* a start() without the try/catch around connectMicrophone: the rejection
\* of getUserMedia rejects start(); the isolation property must tell it from
\* the code's
StartGumRejectAborts(s) ==
    /\ ~MicrotaskPending
    /\ startCalls[s].pc = "gum"
    /\ startCalls' = [startCalls EXCEPT ![s] = IdleStart]
    /\ thrown' = "getUserMedia rejected"
    /\ tickedHalted' = FALSE
    /\ notified' = "none"
    /\ UNCHANGED << engineVars, audioVars, micVars, rafPending, loadCall,
                    routerCall, secondCall, halt, lastTrackArg >>
    /\ UNCHANGED << smoothVars, pureVars, loopPool, micAtCall, inFlightAtHalt >>

\* getUserMedia rejected: caught and logged by connectPlayerMicrophones
StartGumReject(s) ==
    /\ ~MicrotaskPending
    /\ startCalls[s].pc = "gum"
    /\ ContinueStart(s, startCalls[s].visited, Mic)
    /\ UNCHANGED ctxState
    /\ StartFrame

\* pitchDetector.init() resolved: the input is registered
StartInitResolve(s) ==
    /\ ~MicrotaskPending
    /\ startCalls[s].pc = "init"
    /\ ContinueStart(s, startCalls[s].visited,
                     ConnectFinish(Mic, startCalls[s]))
    /\ UNCHANGED ctxState
    /\ StartFrame

\* pitchDetector.init() rejected: caught and logged by connectPlayerMicrophones
StartInitReject(s) ==
    /\ ~MicrotaskPending
    /\ startCalls[s].pc = "init"
    /\ ContinueStart(s, startCalls[s].visited, Mic)
    /\ UNCHANGED ctxState
    /\ StartFrame

(* ---------------- GameEngine: pause, resume, stop, dispose ------------- *)
\* a pause() without its guard: it pauses the media, announces paused and
\* cancels the loop in every state; the no-op property must tell it from the
\* code's
PauseUnguarded ==
    /\ audioElement' = AudioPause(audioElement)
    /\ setState("paused")
    /\ rafPending' = stopGameLoop.rafPending
    /\ animationFrameId' = stopGameLoop.animationFrameId
    /\ Quiet
    /\ UNCHANGED << song, noteTrackers, playerVars, ctxState, micVars, callVars,
                    halt, lastTrackArg >>
    /\ UNCHANGED << smoothVars, pureVars, loopPool, micAtCall, inFlightAtHalt >>

\* pause(): returns at once unless playing
Pause ==
    /\ IF state # "playing"
       THEN /\ notified' = "none"
            /\ UNCHANGED << state, audioElement, rafPending, animationFrameId >>
       ELSE /\ audioElement' = AudioPause(audioElement)
            /\ setState("paused")
            /\ rafPending' = stopGameLoop.rafPending
            /\ animationFrameId' = stopGameLoop.animationFrameId
    /\ Quiet
    /\ UNCHANGED << song, noteTrackers, playerVars, ctxState, micVars, callVars,
                    halt, lastTrackArg >>
    /\ UNCHANGED << smoothVars, pureVars, loopPool, micAtCall, inFlightAtHalt >>

\* resume(): returns at once unless paused
Resume ==
    /\ IF state # "paused"
       THEN /\ notified' = "none"
            /\ UNCHANGED << state, audioElement, rafPending, animationFrameId, halt >>
       ELSE /\ FreeLoops # {}
            /\ audioElement' = AudioPlay(audioElement)
            /\ setState("playing")
            /\ rafPending' = startGameLoop(rafPending).rafPending
            /\ animationFrameId' = startGameLoop(rafPending).animationFrameId
            /\ halt' = "none"
    /\ Quiet
    /\ UNCHANGED << song, noteTrackers, playerVars, ctxState, micVars, callVars,
                    lastTrackArg >>
    /\ UNCHANGED << smoothVars, pureVars, loopPool, micAtCall, inFlightAtHalt >>

\* the players for whom a note is in flight
InFlight == {id \in PlayerIdSet : currentNoteIndices[id] >= 0}

\* stop(): audioEngine.stop(), stopGameLoop(), setState("ready")
Stop ==
    /\ audioElement' = AudioStop(audioElement)
    /\ rafPending' = stopGameLoop.rafPending
    /\ animationFrameId' = stopGameLoop.animationFrameId
    /\ setState("ready")
    /\ halt' = "stop"
    /\ Quiet
    /\ UNCHANGED << song, noteTrackers, playerVars, ctxState, micVars, callVars,
                    lastTrackArg >>
    /\ inFlightAtHalt' = InFlight
    /\ UNCHANGED << smoothVars, pureVars, loopPool, micAtCall >>

\* dispose(): stopGameLoop(), then AudioEngine.dispose(): unloadAudio(),
\* microphoneManager.disconnectAll(), audioContext.close().  close() on a
\* context that is closed returns a promise rejected with InvalidStateError,
\* which dispose() neither awaits nor catches.
Dispose ==
    /\ rafPending' = stopGameLoop.rafPending
    /\ animationFrameId' = stopGameLoop.animationFrameId
    /\ audioElement' = NoAudio
    /\ streams' = disconnectAll(Mic).streams
    /\ sharedStreams' = disconnectAll(Mic).sharedStreams
    /\ phys' = disconnectAll(Mic).phys
    /\ ctxState' = "closed"
    /\ halt' = "dispose"
    /\ thrown' = IF ctxState = "closed"
                 THEN "InvalidStateError (unhandled rejection)" ELSE "none"
    /\ tickedHalted' = FALSE
    /\ notified' = "none"
    /\ UNCHANGED << state, song, noteTrackers, playerVars, callVars,
                    lastTrackArg >>
    /\ pitchStates' = [k \in DOMAIN pitchStates \
                           (DOMAIN streams \ DOMAIN disconnectAll(Mic).streams)
                        |-> pitchStates[k]]
    /\ UNCHANGED << reversed, perfNow, pitchReads, pureVars, loopPool, micAtCall >>
    /\ inFlightAtHalt' = InFlight

(* ------------------------------ the media ------------------------------ *)
\* seekTo(timeMs): sets the element's position, if there is an element
SeekTo(timeMs) ==
    /\ audioElement.loaded
    /\ timeMs <= audioElement.durationMs
    /\ audioElement' = [audioElement EXCEPT !.currentTime = timeMs]
    /\ Quiet
    /\ notified' = "none"
    /\ UNCHANGED << engineVars, ctxState, micVars, rafPending, callVars, halt,
                    lastTrackArg >>
    /\ UNCHANGED << smoothVars, pureVars, loopPool, micAtCall, inFlightAtHalt >>

\* getNextNoteAcrossAllTracks: of the notes getNextNote finds on each
\* track, the one that starts first (the first track's on a tie)
getNextNoteAcrossAllTracks(timeMs) ==
    LET upcoming == {k \in DOMAIN noteTrackers :
                        getNextNote(noteTrackers[k], timeMs) # NoNote}
        Start(k) == getNextNote(noteTrackers[k], timeMs).startTimeMs
    IN  IF upcoming = {} THEN NoNote
        ELSE getNextNote(noteTrackers[
                 CHOOSE k \in upcoming :
                     \A j \in upcoming :
                         Start(k) < Start(j) \/ (Start(k) = Start(j) /\ k <= j)],
                 timeMs)

\* GamePage.handleSkip: seeks to 5 seconds before the next note of any
\* track, forward only.  With no note left it ends the page's game
\* (handleEnd: store and navigation), which leaves the engine as it is.
Skip ==
    /\ LET currentTime == getCurrentTime
           nextNote    == getNextNoteAcrossAllTracks(currentTime)
           lead        == nextNote.startTimeMs - 5000
           skipToTime  == IF lead > 0 THEN lead ELSE 0
       IN  IF nextNote # NoNote /\ skipToTime > currentTime /\ audioElement.loaded
           THEN audioElement' =
                   [audioElement EXCEPT !.currentTime =
                       IF skipToTime <= audioElement.durationMs
                       THEN skipToTime ELSE audioElement.durationMs]
           ELSE UNCHANGED audioElement
    /\ Quiet
    /\ notified' = "none"
    /\ UNCHANGED << engineVars, ctxState, micVars, rafPending, callVars, halt,
                    lastTrackArg >>
    /\ UNCHANGED << smoothVars, pureVars, loopPool, micAtCall, inFlightAtHalt >>

\* playback moves the media clock
MediaAdvance ==
    /\ ~MicrotaskPending
    /\ audioElement.loaded
    /\ audioElement.status = "ok"
    /\ ~audioElement.paused
    /\ audioElement.currentTime < audioElement.durationMs
    /\ audioElement' = [audioElement EXCEPT !.currentTime = @ + ClockStepMs]
    /\ Quiet
    /\ notified' = "none"
    /\ UNCHANGED << engineVars, ctxState, micVars, rafPending, callVars, halt,
                    lastTrackArg >>
    /\ UNCHANGED << smoothVars, pureVars, loopPool, micAtCall, inFlightAtHalt >>

\* "ended": playback reached the end; the handler runs endGame():
\* stopGameLoop(), setState("finished")
MediaEnded ==
    /\ ~MicrotaskPending
    /\ audioElement.loaded
    /\ audioElement.status = "ok"
    /\ ~audioElement.paused
    /\ audioElement.currentTime >= audioElement.durationMs
    /\ audioElement.endedHandler
    /\ audioElement' = [audioElement EXCEPT !.paused = TRUE]
    /\ rafPending' = stopGameLoop.rafPending
    /\ animationFrameId' = stopGameLoop.animationFrameId
    /\ setState("finished")
    /\ Quiet
    /\ UNCHANGED << song, noteTrackers, playerVars, ctxState, micVars, callVars,
                    halt, lastTrackArg >>
    /\ inFlightAtHalt' = InFlight
    /\ UNCHANGED << smoothVars, pureVars, loopPool, micAtCall >>

(* ------------------------- GameEngine: update() ------------------------ *)
\* getPlayerTrack: the track the player is bound to, 1 when it has none
getPlayerTrack(playerId) ==
    IF Has(playerTracks, playerId) THEN playerTracks[playerId] ELSE 1

\* getPlayerMaxScore of the game page: calculateMaxScore of the chart of the
\* player's track; a song without a track 2 answers track 1's for it
getPlayerMaxScore(playerId) ==
    LET maxScoreP1 == IF song # NoSong THEN calculateMaxScore(song.notes) ELSE 0
        maxScoreP2 == IF song # NoSong /\ song.notes_p2 # << >>
                      THEN calculateMaxScore(song.notes_p2) ELSE maxScoreP1
    IN  IF getPlayerTrack(playerId) = 2 THEN maxScoreP2 ELSE maxScoreP1

\* the tracker update() uses for a player: its track's, else the primary one
TrackerOf(id) ==
    LET playerTrack == IF Has(playerTracks, id) THEN playerTracks[id] ELSE 1
    IN  IF Has(noteTrackers, playerTrack) THEN noteTrackers[playerTrack]
        ELSE noteTrackers[1]

\* pitchHistory after a tick: a detected pitch is appended and the history cut
\* to the last five seconds
PushHistory(history, timeMs, pitch) ==
    IF pitch > 0
    THEN SelectSeq(Append(history, [timeMs |-> timeMs, frequency |-> pitch]),
                   LAMBDA smp : smp.timeMs > timeMs - HISTORY_WINDOW_MS)
    ELSE history

\* the body of update()'s loop for one player, given the player record, its
\* track's notes, its in-flight note index and its sample buffers: what
\* these three are after the tick
UpdatePlayerIn(pl, gameNotes, lastNoteIndex, buffers, timeMs, pitch) ==
    LET currentNote   == getCurrentNote(gameNotes, timeMs)
        pl1 == [pl EXCEPT !.currentPitch = pitch,
                          !.pitchHistory = PushHistory(@, timeMs, pitch)]
    IN  IF currentNote.index >= 0
        THEN [player  |-> pl1,
              index   |-> currentNote.index,
              buffers |-> MapSet(buffers, currentNote.index,
                                 Append(IF Has(buffers, currentNote.index)
                                        THEN buffers[currentNote.index] ELSE << >>,
                                        pitch))]
        ELSE IF lastNoteIndex >= 0
        THEN LET samples == IF Has(buffers, lastNoteIndex)
                            THEN buffers[lastNoteIndex] ELSE << >>
             IN  IF lastNoteIndex + 1 <= Len(gameNotes)
                 THEN LET note   == gameNotes[lastNoteIndex + 1]
                          result == calculateNoteScore(note, note.index, samples)
                      IN  [player  |-> [pl1 EXCEPT
                                          !.score = @ + result.earnedPoints,
                                          !.noteScores = MapSet(@, note.index, result)],
                           index   |-> -1,
                           buffers |-> buffers]
                 ELSE [player |-> pl1, index |-> -1, buffers |-> buffers]
        ELSE [player |-> pl1, index |-> lastNoteIndex, buffers |-> buffers]

\* the loop body for a player of the session
UpdatePlayer(pl, timeMs, pitch) ==
    UpdatePlayerIn(pl, TrackerOf(pl.id), currentNoteIndices[pl.id],
                   notePitchSamples[pl.id], timeMs, pitch)

\* the pitches a tick may read, one per player.  The model keeps at most
\* MaxHistory entries in a pitch history: a player whose history would grow
\* past that reads silence.
PitchAllowed(pl, pitch, timeMs, heard) ==
    /\ pitch \in getPitchChoices(pl.microphoneId, heard)
    /\ Len(PushHistory(pl.pitchHistory, timeMs, pitch)) <= MaxHistory

\* no sample buffer of the model grows past MaxSamples
BufferRoom(timeMs) ==
    \A i \in 1..Len(players) :
        LET cur == getCurrentNote(TrackerOf(players[i].id), timeMs)
            buf == notePitchSamples[players[i].id]
        IN  cur.index >= 0 /\ Has(buf, cur.index) => Len(buf[cur.index]) < MaxSamples

\* one animation frame of loop chain c, in a room where the inputs hear
\* `heard`: update(), then the next frame is requested and its id remembered
Tick(c, heard) ==
    /\ ~MicrotaskPending
    /\ c \in rafPending
    /\ animationFrameId' = c
    /\ tickedHalted' = (halt # "none")
    /\ notified' = "none"
    /\ thrown' = "none"
    /\ IF ~Has(noteTrackers, 1) \/ song = NoSong
       THEN UNCHANGED << players, currentNoteIndices, notePitchSamples >>
       ELSE /\ BufferRoom(getCurrentTime)
            /\ \E pitchOf \in [PlayerIdSet -> heard \cup {-1}] :
                 /\ \A i \in 1..Len(players) :
                        PitchAllowed(players[i], pitchOf[players[i].id],
                                     getCurrentTime, heard)
                 /\ LET upd == [i \in 1..Len(players) |->
                                  UpdatePlayer(players[i], getCurrentTime,
                                               pitchOf[players[i].id])]
                    IN  /\ players' = [i \in 1..Len(players) |-> upd[i].player]
                        /\ currentNoteIndices' =
                              [id \in PlayerIdSet |-> upd[PlayerIndex(id)].index]
                        /\ notePitchSamples' =
                              [id \in PlayerIdSet |-> upd[PlayerIndex(id)].buffers]
    /\ UNCHANGED << state, song, noteTrackers, playerTracks, audioVars, micVars,
                    rafPending, callVars, halt, lastTrackArg >>
    /\ inFlightAtHalt' = IF ~Has(noteTrackers, 1) \/ song = NoSong
                       THEN inFlightAtHalt ELSE {}
    /\ UNCHANGED << smoothVars, pureVars, loopPool, micAtCall >>

(* ------------- update() with the smoothing of getPitch ----------------- *)
\* initPitchState: nothing heard yet
NoPitchState == [lastMidiNote |-> -1, smoothedPitch |-> -1, holdPitch |-> -1,
                 lastValidPitchTime |-> 0]

\* getPitch(inputId) on a frame for which the detector reports rawPitch (-1
\* for no pitch) on a buffer of RMS signalStrength, performance.now() reading
\* `now`.  Both smoothing branches weigh the old value 0.7 and the raw one
\* 0.3.  Yields the pitch states after the call, the pitch returned, and
\* whether the smoothed pitch is a whole number of Hz of the table (the only
\* ones the model follows).  lastPitch and confidence never reach the caller
\* and are left out.
getPitch(ps, inputId, rawPitch, signalStrength, now) ==
    IF ~Has(streams, inputId)
    THEN [pitchStates |-> ps, pitch |-> -1, exact |-> TRUE]
    ELSE LET st == IF Has(ps, inputId) THEN ps[inputId] ELSE NoPitchState
             hasValidPitch == rawPitch > 0 /\ signalStrength > MIN_CONFIDENCE_THRESHOLD
             timeSinceLastValid == now - st.lastValidPitchTime
         IN  IF hasValidPitch
             THEN LET sum10 == IF st.lastMidiNote > 0
                               THEN 7 * st.smoothedPitch + 3 * rawPitch
                               ELSE 10 * rawPitch
                      smoothedPitch == sum10 \div 10
                  IN  [pitchStates |-> MapSet(ps, inputId,
                                         [lastMidiNote  |-> frequencyToMidi10(rawPitch),
                                          smoothedPitch |-> smoothedPitch,
                                          holdPitch     |-> smoothedPitch,
                                          lastValidPitchTime |-> now]),
                       pitch |-> smoothedPitch,
                       exact |-> sum10 % 10 = 0 /\ smoothedPitch \in TablePitches]
             ELSE IF timeSinceLastValid < PITCH_HOLD_TIME_MS /\ st.holdPitch > 0
             THEN [pitchStates |-> MapSet(ps, inputId, st),
                   pitch |-> st.holdPitch, exact |-> TRUE]
             ELSE [pitchStates |-> MapSet(ps, inputId,
                                     [lastMidiNote  |-> -1,
                                      smoothedPitch |-> -1,
                                      holdPitch     |-> -1,
                                      lastValidPitchTime |-> st.lastValidPitchTime]),
                   pitch |-> -1, exact |-> TRUE]

\* the ids of the players in the order update() visits them
VisitOrder == [i \in 1..Len(players) |-> players[i].id]

Reverse(order) == [i \in 1..Len(order) |-> order[Len(order) + 1 - i]]

\* the getPitch calls of one update() that visits the players in `order`:
\* the pitch each player reads and the pitch states after the last call
RECURSIVE ReadPitches(_, _, _, _, _)
ReadPitches(order, ps, rawPitch, signalStrength, now) ==
    IF order = << >>
    THEN [pitchStates |-> ps, pitchOf |-> << >>, exact |-> TRUE]
    ELSE LET r    == getPitch(ps, PlayerOf(Head(order)).microphoneId,
                              rawPitch, signalStrength, now)
             rest == ReadPitches(Tail(order), r.pitchStates,
                                 rawPitch, signalStrength, now)
         IN  [pitchStates |-> rest.pitchStates,
              pitchOf     |-> MapSet(rest.pitchOf, Head(order), r.pitch),
              exact       |-> r.exact /\ rest.exact]

\* a player's scoring state in the reversed session; a player no tick has
\* visited yet is there as it is here
ReversedScoring(id) ==
    IF Has(reversed.scoring, id) THEN reversed.scoring[id]
    ELSE [player  |-> PlayerOf(id),
          index   |-> currentNoteIndices[id],
          buffers |-> notePitchSamples[id]]

\* one animation frame of loop chain c, `elapsed` ms after the previous one,
\* while every input's detector reports `raw` on a strong signal: update()
\* visits the players in the order of the players map, each reading getPitch;
\* the reversed session takes the same frame at the same clock readings and
\* visits them in the opposite order
TickInOrder(c, raw, elapsed) ==
    /\ ~MicrotaskPending
    /\ c \in rafPending
    /\ perfNow + elapsed <= MaxNow
    /\ animationFrameId' = c
    /\ tickedHalted' = (halt # "none")
    /\ notified' = "none"
    /\ thrown' = "none"
    /\ IF ~Has(noteTrackers, 1) \/ song = NoSong
       THEN UNCHANGED << players, currentNoteIndices, notePitchSamples, smoothVars >>
       ELSE LET timeMs == getCurrentTime
                fwd == ReadPitches(VisitOrder, pitchStates, raw,
                                   2 * MIN_CONFIDENCE_THRESHOLD, perfNow + elapsed)
                bwd == ReadPitches(Reverse(VisitOrder), reversed.pitchStates, raw,
                                   2 * MIN_CONFIDENCE_THRESHOLD, perfNow + elapsed)
                upd == [i \in 1..Len(players) |->
                          UpdatePlayer(players[i], timeMs, fwd.pitchOf[players[i].id])]
                rev == [id \in PlayerIdSet |->
                          UpdatePlayerIn(ReversedScoring(id).player, TrackerOf(id),
                                         ReversedScoring(id).index,
                                         ReversedScoring(id).buffers,
                                         timeMs, bwd.pitchOf[id])]
            IN  /\ BufferRoom(timeMs)
                /\ fwd.exact /\ bwd.exact
                /\ \A i \in 1..Len(players) :
                       Len(upd[i].player.pitchHistory) <= MaxHistory
                /\ \A id \in PlayerIdSet :
                       Len(rev[id].player.pitchHistory) <= MaxHistory
                /\ players' = [i \in 1..Len(players) |-> upd[i].player]
                /\ currentNoteIndices' =
                      [id \in PlayerIdSet |-> upd[PlayerIndex(id)].index]
                /\ notePitchSamples' =
                      [id \in PlayerIdSet |-> upd[PlayerIndex(id)].buffers]
                /\ pitchStates' = fwd.pitchStates
                /\ reversed' = [pitchStates |-> bwd.pitchStates, scoring |-> rev]
                /\ perfNow' = perfNow + elapsed
                /\ UNCHANGED pitchReads
    /\ inFlightAtHalt' = IF ~Has(noteTrackers, 1) \/ song = NoSong
                       THEN inFlightAtHalt ELSE {}
    /\ UNCHANGED << state, song, noteTrackers, playerTracks, audioVars, micVars,
                    rafPending, callVars, halt, lastTrackArg,
                    pureVars, loopPool, micAtCall >>

(* ------------------- the Scorer called on its own --------------------- *)
\* what a step of the scorer leaves alone: the whole session
ScorerFrame ==
    UNCHANGED << engineVars, audioVars, micVars, rafPending, callVars, smoothVars,
                 thrown, notified, halt, tickedHalted, lastTrackArg,
                 inFlightAtHalt, loopPool, micAtCall >>

\* a scorer that is about to be handed one of the notes
InitScorer ==
    /\ InitSession
    /\ scorerCall \in [note : ScorerNotes, samples : {<< >>}, result : {NoResult}]
    /\ chartCall = IdleChart

\* one more sample of the note, taken before the note is scored
TakeSample(frequency) ==
    /\ scorerCall.result = NoResult
    /\ Len(scorerCall.samples) < MaxScorerSamples
    /\ scorerCall' = [scorerCall EXCEPT !.samples = Append(@, frequency)]
    /\ UNCHANGED chartCall
    /\ ScorerFrame

\* calculateNoteScore(note, 0, samples) returns
ScoreNote ==
    /\ scorerCall.result = NoResult
    /\ scorerCall' = [scorerCall EXCEPT !.result =
                          calculateNoteScore(scorerCall.note, 0, scorerCall.samples)]
    /\ UNCHANGED chartCall
    /\ ScorerFrame

\* one more note of the chart, starting on the beat the chart has reached
\* (a chart's notes come ordered by start beat), while nothing was computed
WriteNote(note) ==
    /\ chartCall.maxScore = -1
    /\ chartCall.tracker = NoTracker
    /\ Len(chartCall.notes) < MaxChartNotes
    /\ Len(chartCall.notes) > 0
          => note.start_beat >= chartCall.notes[Len(chartCall.notes)].start_beat
    /\ chartCall' = [chartCall EXCEPT !.notes = Append(@, note)]
    /\ UNCHANGED scorerCall
    /\ ScorerFrame

\* one more line break of the chart (they come ordered by start beat),
\* while nothing was computed
WriteLineBreak(beat) ==
    /\ chartCall.maxScore = -1
    /\ chartCall.tracker = NoTracker
    /\ Len(chartCall.lineBreaks) < MaxLineBreaks
    /\ Len(chartCall.lineBreaks) > 0
          => beat >= chartCall.lineBreaks[Len(chartCall.lineBreaks)].start_beat
    /\ chartCall' = [chartCall EXCEPT !.lineBreaks = Append(@, [start_beat |-> beat])]
    /\ UNCHANGED scorerCall
    /\ ScorerFrame

\* new NoteTracker(notes, lineBreaks, bpm, gap) at the tempo of the charts:
\* processNotes, then buildPhrases
NewNoteTracker ==
    /\ chartCall.tracker = NoTracker
    /\ LET gameNotes == processNotes(chartCall.notes, 3, 0)
       IN  chartCall' = [chartCall EXCEPT !.tracker =
                            [built |-> TRUE, notes |-> gameNotes,
                             phrases |-> buildPhrases(gameNotes, chartCall.lineBreaks)]]
    /\ UNCHANGED scorerCall
    /\ ScorerFrame

\* tracker.getCurrentPhrase(timeMs) on the tracker built
GetCurrentPhrase(timeMs) ==
    /\ chartCall.tracker # NoTracker
    /\ chartCall' = [chartCall EXCEPT !.query =
                        [op |-> "getCurrentPhrase", timeMs |-> timeMs,
                         phrase |-> getCurrentPhrase(chartCall.tracker.phrases, timeMs)]]
    /\ UNCHANGED scorerCall
    /\ ScorerFrame

\* tracker.getNextPhrase(timeMs) on the tracker built
GetNextPhrase(timeMs) ==
    /\ chartCall.tracker # NoTracker
    /\ chartCall' = [chartCall EXCEPT !.query =
                        [op |-> "getNextPhrase", timeMs |-> timeMs,
                         phrase |-> getNextPhrase(chartCall.tracker.phrases, timeMs)]]
    /\ UNCHANGED scorerCall
    /\ ScorerFrame

\* scorer.calculateMaxScore(notes) returns
CalculateMaxScore ==
    /\ chartCall.maxScore = -1
    /\ chartCall' = [chartCall EXCEPT !.maxScore = calculateMaxScore(chartCall.notes)]
    /\ UNCHANGED scorerCall
    /\ ScorerFrame

(* ------------- MicrophoneManager called directly, in sequence ---------- *)
\* what a direct call on the router leaves alone
RouterRest ==
    /\ tickedHalted' = FALSE
    /\ notified' = "none"
    /\ UNCHANGED << engineVars, audioVars, rafPending, loadCall, startCalls,
                    halt, lastTrackArg >>
    /\ UNCHANGED << reversed, perfNow, pitchReads, pureVars, loopPool, inFlightAtHalt >>

RouterFrame == RouterRest /\ UNCHANGED secondCall

\* connectMicrophone(deviceId, channel), called when no other call is pending
RouterConnect(deviceId, channel) ==
    /\ routerCall.pc = "idle"
    /\ LET r == ConnectBegin(Mic, deviceId, channel)
       IN  /\ routerCall' = r.call
           /\ streams' = r.mic.streams
           /\ sharedStreams' = r.mic.sharedStreams
           /\ phys' = r.mic.phys
    /\ thrown' = "none"
    /\ RouterFrame
    /\ UNCHANGED pitchStates
    /\ micAtCall' = Mic

\* the call returns the input that exists already
RouterConnRet ==
    /\ routerCall.pc = "ret"
    /\ routerCall' = IdleConn
    /\ thrown' = "none"
    /\ UNCHANGED micVars
    /\ RouterFrame
    /\ UNCHANGED pitchStates
    /\ micAtCall' = NoMic

\* getUserMedia resolved
RouterGumResolve ==
    /\ routerCall.pc = "gum"
    /\ Len(phys) < MaxStreams
    /\ LET r == ConnectGotStream(Mic, routerCall)
       IN  /\ routerCall' = r.call
           /\ streams' = r.mic.streams
           /\ sharedStreams' = r.mic.sharedStreams
           /\ phys' = r.mic.phys
    /\ thrown' = "none"
    /\ RouterFrame
    /\ UNCHANGED pitchStates
    /\ UNCHANGED micAtCall

\* getUserMedia rejected: connectMicrophone rejects
RouterGumReject ==
    /\ routerCall.pc = "gum"
    /\ routerCall' = IdleConn
    /\ thrown' = "getUserMedia rejected"
    /\ UNCHANGED micVars
    /\ RouterFrame
    /\ UNCHANGED pitchStates
    /\ micAtCall' = NoMic

\* pitchDetector.init() resolved: the input is registered and returned
RouterInitResolve ==
    /\ routerCall.pc = "init"
    /\ routerCall' = IdleConn
    /\ streams' = ConnectFinish(Mic, routerCall).streams
    /\ sharedStreams' = ConnectFinish(Mic, routerCall).sharedStreams
    /\ phys' = ConnectFinish(Mic, routerCall).phys
    /\ thrown' = "none"
    /\ RouterFrame
    /\ UNCHANGED pitchStates
    /\ micAtCall' = NoMic

\* pitchDetector.init() rejected: connectMicrophone rejects where it stands
RouterInitReject ==
    /\ routerCall.pc = "init"
    /\ routerCall' = IdleConn
    /\ thrown' = "pitch detector init failed"
    /\ UNCHANGED micVars
    /\ RouterFrame
    /\ UNCHANGED pitchStates
    /\ micAtCall' = NoMic

\* what a step of the second connectMicrophone call leaves alone
OverlapFrame == RouterRest /\ UNCHANGED << routerCall, pitchStates, micAtCall >>

\* connectMicrophone(deviceId, channel) called while the call made before it
\* is waiting for its getUserMedia request
OverlapConnect(deviceId, channel) ==
    /\ secondCall.pc = "idle"
    /\ routerCall.pc = "gum"
    /\ LET r == ConnectBegin(Mic, deviceId, channel)
       IN  /\ secondCall' = r.call
           /\ streams' = r.mic.streams
           /\ sharedStreams' = r.mic.sharedStreams
           /\ phys' = r.mic.phys
    /\ thrown' = "none"
    /\ OverlapFrame

\* the second call returns the input that exists already
OverlapConnRet ==
    /\ secondCall.pc = "ret"
    /\ secondCall' = IdleConn
    /\ thrown' = "none"
    /\ UNCHANGED micVars
    /\ OverlapFrame

\* getUserMedia of the second call resolved
OverlapGumResolve ==
    /\ secondCall.pc = "gum"
    /\ Len(phys) < MaxStreams
    /\ LET r == ConnectGotStream(Mic, secondCall)
       IN  /\ secondCall' = r.call
           /\ streams' = r.mic.streams
           /\ sharedStreams' = r.mic.sharedStreams
           /\ phys' = r.mic.phys
    /\ thrown' = "none"
    /\ OverlapFrame

\* pitchDetector.init() of the second call resolved
OverlapInitResolve ==
    /\ secondCall.pc = "init"
    /\ secondCall' = IdleConn
    /\ streams' = ConnectFinish(Mic, secondCall).streams
    /\ sharedStreams' = ConnectFinish(Mic, secondCall).sharedStreams
    /\ phys' = ConnectFinish(Mic, secondCall).phys
    /\ thrown' = "none"
    /\ OverlapFrame

\* disconnectMicrophone(inputId), called when no connect is pending
OverlapDisconnect(inputId) ==
    /\ secondCall.pc = "idle"
    /\ routerCall.pc = "idle"
    /\ streams' = disconnectMicrophone(Mic, inputId).streams
    /\ sharedStreams' = disconnectMicrophone(Mic, inputId).sharedStreams
    /\ phys' = disconnectMicrophone(Mic, inputId).phys
    /\ thrown' = "none"
    /\ UNCHANGED << routerCall, secondCall, micAtCall >>
    /\ RouterRest
    /\ pitchStates' = IF Has(streams, inputId) THEN MapDelete(pitchStates, inputId)
                      ELSE pitchStates

\* disconnectMicrophone(inputId), called when no other call is pending
RouterDisconnect(inputId) ==
    /\ routerCall.pc = "idle"
    /\ streams' = disconnectMicrophone(Mic, inputId).streams
    /\ sharedStreams' = disconnectMicrophone(Mic, inputId).sharedStreams
    /\ phys' = disconnectMicrophone(Mic, inputId).phys
    /\ thrown' = "none"
    /\ UNCHANGED routerCall
    /\ RouterFrame
    /\ pitchStates' = IF Has(streams, inputId) THEN MapDelete(pitchStates, inputId)
                      ELSE pitchStates
    /\ UNCHANGED micAtCall

\* disconnectAll(), called when no other call is pending
RouterDisconnectAll ==
    /\ routerCall.pc = "idle"
    /\ streams' = disconnectAll(Mic).streams
    /\ sharedStreams' = disconnectAll(Mic).sharedStreams
    /\ phys' = disconnectAll(Mic).phys
    /\ thrown' = "none"
    /\ UNCHANGED routerCall
    /\ RouterFrame
    /\ pitchStates' = [k \in DOMAIN pitchStates \
                           (DOMAIN streams \ DOMAIN disconnectAll(Mic).streams)
                        |-> pitchStates[k]]
    /\ UNCHANGED micAtCall

\* the input ids a caller of the router names
InputIds == {getMicrophoneInputId(d, ch) : d \in DeviceIds, ch \in Channels}

\* getPitch(inputId) called directly, `elapsed` ms after the clock was last
\* read, on a frame of detected pitch rawPitch and RMS signalStrength
RouterGetPitch(inputId, rawPitch, signalStrength, elapsed) ==
    /\ Len(pitchReads) < MaxReads
    /\ LET now == perfNow + elapsed
           r   == getPitch(pitchStates, inputId, rawPitch, signalStrength, now)
       IN  /\ r.exact
           /\ pitchStates' = r.pitchStates
           /\ perfNow' = now
           /\ pitchReads' = Append(pitchReads,
                                [inputId        |-> inputId,
                                 connected      |-> Has(streams, inputId),
                                 rawPitch       |-> rawPitch,
                                 signalStrength |-> signalStrength,
                                 now            |-> now,
                                 pitch          |-> r.pitch])
    /\ thrown' = "none"
    /\ tickedHalted' = FALSE
    /\ notified' = "none"
    /\ UNCHANGED << engineVars, audioVars, micVars, rafPending, callVars,
                    halt, lastTrackArg, reversed, pureVars, loopPool, micAtCall, inFlightAtHalt >>

\* frames offered to a direct getPitch call: the detected pitch, the RMS in
\* thousandths, and the time since the clock was last read
HoldPitches == {-1, 262}
HoldStrengths == {MIN_CONFIDENCE_THRESHOLD \div 2, MIN_CONFIDENCE_THRESHOLD,
                  MIN_CONFIDENCE_THRESHOLD + 10}
HoldElapsed == {1, PITCH_HOLD_TIME_MS - 1}

(* ------------------------- the specifications -------------------------- *)
\* A singing session: the duet is loaded, players join on a mono input, and
\* the session is started, paused, resumed, stopped, sought and ticked while
\* the inputs hear Pitches.  Every await of start() resolves.
Next ==
    \/ LoadSong(Duet)
    \/ LoadResolve
    \/ \E id \in PlayerIds : AddPlayer(id, <<"A">>, 0)
    \/ \E s \in StartSlots : StartCall(s)
    \/ \E s \in StartSlots : StartResumeDone(s)
    \/ \E s \in StartSlots : StartConnRet(s)
    \/ \E s \in StartSlots : StartGumResolve(s)
    \/ \E s \in StartSlots : StartInitResolve(s)
    \/ Pause
    \/ Resume
    \/ Stop
    \/ \E t \in SeekTargets : SeekTo(t)
    \/ MediaAdvance
    \/ MediaEnded
    \/ \E c \in LoopIds : Tick(c, Pitches)

Spec == Init /\ [][Next]_vars

\* A session in which capture may fail: the duet is loaded, a player joins on
\* either track, getUserMedia resolves or rejects, and the session plays,
\* pauses and is started again in a room where people sing.  Nothing
\* disconnects an input here, so the inputs only grow.
NextUnconnected ==
    \/ LoadSong(Duet)
    \/ LoadResolve
    \/ \E id \in PlayerIds, track \in {0, 2} : AddPlayer(id, <<"A">>, track)
    \/ \E s \in StartSlots : StartCall(s)
    \/ \E s \in StartSlots : StartResumeDone(s)
    \/ \E s \in StartSlots : StartConnRet(s)
    \/ \E s \in StartSlots : StartGumResolve(s)
    \/ \E s \in StartSlots : StartGumReject(s)
    \/ \E s \in StartSlots : StartInitResolve(s)
    \/ Pause
    \/ MediaAdvance
    \/ MediaEnded
    \/ \E c \in LoopIds : Tick(c, Pitches)

SpecUnconnected == Init /\ [][NextUnconnected]_vars

\* Players on one input: the round is loaded, up to MaxOrderPlayers players
\* join on input "A", the session is started and plays to the end while the
\* input's frames go through the smoothing of getPitch.
NextOrder ==
    \/ LoadSong(Round)
    \/ LoadResolve
    \/ \E id \in OrderPlayerIds : AddPlayer(id, <<"A">>, 0)
    \/ \E s \in StartSlots : StartCall(s)
    \/ \E s \in StartSlots : StartResumeDone(s)
    \/ \E s \in StartSlots : StartConnRet(s)
    \/ \E s \in StartSlots : StartGumResolve(s)
    \/ \E s \in StartSlots : StartInitResolve(s)
    \/ MediaAdvance
    \/ MediaEnded
    \/ \E c \in LoopIds, raw \in OrderFrames, elapsed \in {0, PITCH_HOLD_TIME_MS} :
          TickInOrder(c, raw, elapsed)

SpecOrder == Init /\ [][NextOrder]_vars

\* The scorer on its own: a note of ScorerNotes, up to MaxScorerSamples samples
\* of ScorerFrequencies, then the call.
NextScorer ==
    \/ \E frequency \in ScorerFrequencies : TakeSample(frequency)
    \/ ScoreNote

SpecScorer == InitScorer /\ [][NextScorer]_vars

\* the notes of the charts handed to calculateMaxScore: every type, lengths
\* from 0 up to MaxNoteLength, one note per beat
MaxScoreNotes ==
    [note_type : {"normal", "golden", "rap", "goldenrap", "freestyle"},
     start_beat : 0..(MaxChartNotes - 1), length : 0..MaxNoteLength, pitch : {0}]

\* calculateMaxScore on its own: a chart of up to MaxChartNotes notes is
\* written, note i on beat i - 1, then the call.
NextMaxScore ==
    \/ \E note \in MaxScoreNotes :
          note.start_beat = Len(chartCall.notes) /\ WriteNote(note)
    \/ CalculateMaxScore

SpecMaxScore == Init /\ [][NextMaxScore]_vars

\* the notes of the charts handed to a note tracker: normal notes of one
\* beat on the beats 0..MaxChartNotes
PhraseNotes ==
    [note_type : {"normal"}, start_beat : 0..MaxChartNotes, length : {1},
     pitch : {0}]

\* A note tracker on its own: a chart of up to MaxChartNotes notes and up to
\* MaxLineBreaks line breaks, on beats up to one past the last note's, is
\* written, then the tracker is built.
NextPhrases ==
    \/ \E note \in PhraseNotes : WriteNote(note)
    \/ \E beat \in 0..(MaxChartNotes + 1) : WriteLineBreak(beat)
    \/ NewNoteTracker

\* the times the phrase queries are made at: the first and last instant of
\* the window of a phrase on every beat of the charts and the instant before
\* and after it
QueryTimes ==
    {t \in {beatToMs(b, 3, 0) + d : b \in 0..(MaxChartNotes + 1),
                                    d \in {-2001, -2000, 500, 501}} : t >= 0}

\* A note tracker is built from such a chart and asked for the current and
\* the next phrase.
NextPhraseAt ==
    \/ NextPhrases
    \/ \E timeMs \in QueryTimes : GetCurrentPhrase(timeMs)
    \/ \E timeMs \in QueryTimes : GetNextPhrase(timeMs)

SpecPhraseAt == Init /\ [][NextPhraseAt]_vars

SpecPhrases == Init /\ [][NextPhrases]_vars

\* Uninterrupted play: the solo song is loaded, a player joins, the session
\* is started once and ticks while the media plays to its end.
NextPlay ==
    \/ LoadSong(Solo)
    \/ LoadResolve
    \/ \E id \in PlayerIds : AddPlayer(id, <<"A">>, 0)
    \/ \E s \in StartSlots : StartCall(s)
    \/ \E s \in StartSlots : StartResumeDone(s)
    \/ \E s \in StartSlots : StartGumResolve(s)
    \/ \E s \in StartSlots : StartInitResolve(s)
    \/ MediaAdvance
    \/ MediaEnded
    \/ \E c \in LoopIds : Tick(c, Pitches)

SpecPlay == Init /\ [][NextPlay]_vars

\* Starting a session whose players' inputs open or fail to open: the solo
\* song is loaded, players join on either input id, and start() is called;
\* getUserMedia and pitchDetector.init() settle either way.
NextConnect ==
    \/ LoadSong(Solo)
    \/ LoadResolve
    \/ \E id \in AssignPlayerIds, mic \in PlayerMicIds : AddPlayer(id, mic, 0)
    \/ \E s \in StartSlots : StartCall(s)
    \/ \E s \in StartSlots : StartResumeDone(s)
    \/ \E s \in StartSlots : StartConnRet(s)
    \/ \E s \in StartSlots : StartGumResolve(s)
    \/ \E s \in StartSlots : StartGumReject(s)
    \/ \E s \in StartSlots : StartInitResolve(s)
    \/ \E s \in StartSlots : StartInitReject(s)
    \/ \E c \in LoopIds : Tick(c, Silence)

SpecConnect == Init /\ [][NextConnect]_vars

\* Playing a song to its end: the solo song is loaded, a player joins, and
\* only start(), pause() and resume() are called while the media plays and
\* the session ticks in a silent room.  Every await of start() resolves.
NextEnd ==
    \/ LoadSong(Solo)
    \/ LoadResolve
    \/ \E id \in PlayerIds : AddPlayer(id, <<"A">>, 0)
    \/ \E s \in StartSlots : StartCall(s)
    \/ \E s \in StartSlots : StartResumeDone(s)
    \/ \E s \in StartSlots : StartConnRet(s)
    \/ \E s \in StartSlots : StartGumResolve(s)
    \/ \E s \in StartSlots : StartInitResolve(s)
    \/ Pause
    \/ Resume
    \/ MediaAdvance
    \/ MediaEnded
    \/ \E c \in LoopIds : Tick(c, Silence)

SpecEnd == Init /\ [][NextEnd]_vars

\* The life cycle of a session on the solo song in a silent room: every
\* operation, at any time the code accepts the call, every await settling
\* either way.
NextLife ==
    \/ LoadSong(Solo)
    \/ LoadResolve
    \/ LoadReject
    \/ \E id \in PlayerIds, mic \in PlayerMicIds : AddPlayer(id, mic, 0)
    \/ \E id \in PlayerIds : RemovePlayer(id)
    \/ \E s \in StartSlots : StartCall(s)
    \/ \E s \in StartSlots : StartResumeDone(s)
    \/ \E s \in StartSlots : StartResumeFail(s)
    \/ \E s \in StartSlots : StartConnRet(s)
    \/ \E s \in StartSlots : StartGumResolve(s)
    \/ \E s \in StartSlots : StartGumReject(s)
    \/ \E s \in StartSlots : StartInitResolve(s)
    \/ \E s \in StartSlots : StartInitReject(s)
    \/ Pause
    \/ Resume
    \/ Stop
    \/ Dispose
    \/ \E t \in SeekTargets : SeekTo(t)
    \/ MediaAdvance
    \/ MediaEnded
    \/ \E c \in LoopIds : Tick(c, Silence)

SpecLife == Init /\ [][NextLife]_vars

\* Players joining and leaving a session around the loading of its song,
\* with and without an explicit track.
NextAssign ==
    \/ \E sg \in Songs : LoadSong(sg)
    \/ LoadResolve
    \/ LoadReject
    \/ \E id \in AssignPlayerIds, mic \in PlayerMicIds, track \in 0..2 :
           AddPlayer(id, mic, track)
    \/ \E id \in AssignPlayerIds : RemovePlayer(id)

SpecAssign == Init /\ [][NextAssign]_vars

\* The router on its own: connects and disconnects one after the other.
NextRouter ==
    \/ \E d \in DeviceIds, ch \in Channels : RouterConnect(d, ch)
    \/ RouterConnRet
    \/ RouterGumResolve
    \/ RouterGumReject
    \/ RouterInitResolve
    \/ \E id \in InputIds : RouterDisconnect(id)
    \/ RouterDisconnectAll

SpecRouter == Init /\ [][NextRouter]_vars

\* the reference count of the device's shared stream can still be counted up
RefCountRoom(d) ==
    Has(sharedStreams, d) => sharedStreams[d].refCount < MaxRefCount

\* The router called in sequence, where a connect can fail at either await.
NextFail ==
    \/ \E d \in DeviceIds, ch \in Channels :
          RefCountRoom(d) /\ RouterConnect(d, ch)
    \/ RouterConnRet
    \/ RouterGumResolve
    \/ RouterGumReject
    \/ RouterInitResolve
    \/ RouterInitReject
    \/ \E id \in InputIds : RouterDisconnect(id)

SpecFail == Init /\ [][NextFail]_vars

\* device ids handed to connectMicrophone: plain ones, one that is the word
\* "left", and the input ids of a stereo device handed over as device ids
RoundTripDeviceIds == { <<"A">>, <<"left">>, <<"A", "left">>, <<"A", "right">> }

\* The router called in sequence with those device ids; every input id that
\* connectMicrophone can have built is handed to disconnectMicrophone.
NextIds ==
    \/ \E d \in RoundTripDeviceIds, ch \in Channels : RouterConnect(d, ch)
    \/ RouterConnRet
    \/ RouterGumResolve
    \/ RouterInitResolve
    \/ \E d \in RoundTripDeviceIds, ch \in Channels :
          RouterDisconnect(getMicrophoneInputId(d, ch))

SpecIds == Init /\ [][NextIds]_vars

\* The router with two connectMicrophone calls in flight at once: the second
\* is made before the capture request of the first has resolved; disconnects
\* come when both are done.
NextOverlap ==
    \/ \E d \in DeviceIds, ch \in Channels : RouterConnect(d, ch)
    \/ RouterConnRet
    \/ RouterGumResolve
    \/ RouterInitResolve
    \/ \E d \in DeviceIds, ch \in Channels : OverlapConnect(d, ch)
    \/ OverlapConnRet
    \/ OverlapGumResolve
    \/ OverlapInitResolve
    \/ \E id \in InputIds : OverlapDisconnect(id)

SpecOverlap == Init /\ [][NextOverlap]_vars

\* A session on the gapped duet in which the singer on track 1 seeks and skips.
NextSeek ==
    \/ LoadSong(Gapped)
    \/ LoadResolve
    \/ \E id \in PlayerIds : AddPlayer(id, <<"A">>, 0)
    \/ \E s \in StartSlots : StartCall(s)
    \/ \E s \in StartSlots : StartResumeDone(s)
    \/ \E s \in StartSlots : StartGumResolve(s)
    \/ \E s \in StartSlots : StartInitResolve(s)
    \/ \E t \in GappedSeekTargets : SeekTo(t)
    \/ Skip
    \/ MediaAdvance
    \/ \E c \in LoopIds : Tick(c, Pitches)

SpecSeek == Init /\ [][NextSeek]_vars

\* A session on the gapped duet in which the clock moves by skips alone: the
\* frames follow one another far faster than the five seconds a skip leaves
\* before the next note.
NextSkip ==
    \/ LoadSong(Gapped)
    \/ LoadResolve
    \/ \E id \in PlayerIds : AddPlayer(id, <<"A">>, 0)
    \/ \E s \in StartSlots : StartCall(s)
    \/ \E s \in StartSlots : StartResumeDone(s)
    \/ \E s \in StartSlots : StartConnRet(s)
    \/ \E s \in StartSlots : StartGumResolve(s)
    \/ \E s \in StartSlots : StartInitResolve(s)
    \/ Pause
    \/ Resume
    \/ Skip
    \/ \E c \in LoopIds : Tick(c, Pitches)

SpecSkip == Init /\ [][NextSkip]_vars

\* A session of the duet that is stopped, or plays to its end, and is started
\* again, with the singer on track 2, whose only note starts a beat into
\* the song.
NextHalt ==
    \/ LoadSong(Duet)
    \/ LoadResolve
    \/ \E id \in PlayerIds : AddPlayer(id, <<"A">>, 2)
    \/ \E s \in StartSlots : StartCall(s)
    \/ \E s \in StartSlots : StartResumeDone(s)
    \/ \E s \in StartSlots : StartConnRet(s)
    \/ \E s \in StartSlots : StartGumResolve(s)
    \/ \E s \in StartSlots : StartInitResolve(s)
    \/ Stop
    \/ MediaAdvance
    \/ MediaEnded
    \/ \E c \in LoopIds : Tick(c, Pitches)

SpecHalt == Init /\ [][NextHalt]_vars

\* A session that is started, paused, resumed and stopped in any order, the
\* calls coming also while a start() is suspended; requestAnimationFrame has
\* ids for two loops.
NextLoops ==
    \/ LoadSong(Solo)
    \/ LoadResolve
    \/ \E id \in PlayerIds : AddPlayer(id, <<"A">>, 0)
    \/ \E s \in StartSlots : StartCall(s)
    \/ \E s \in StartSlots : StartResumeDone(s)
    \/ \E s \in StartSlots : StartConnRet(s)
    \/ \E s \in StartSlots : StartGumResolve(s)
    \/ \E s \in StartSlots : StartInitResolve(s)
    \/ Pause
    \/ Resume
    \/ Stop
    \/ \E c \in LoopIds : Tick(c, Silence)

SpecLoops == InitLoops /\ [][NextLoops]_vars

\* One input is connected and its pitch is read frame after frame.
NextHold ==
    \/ RouterConnect(<<"A">>, "mono")
    \/ RouterGumResolve
    \/ RouterInitResolve
    \/ \E rawPitch \in HoldPitches, signalStrength \in HoldStrengths,
          elapsed \in HoldElapsed :
          RouterGetPitch(<<"A">>, rawPitch, signalStrength, elapsed)

SpecHold == Init /\ [][NextHold]_vars

(* ------------------------------ properties ----------------------------- *)
\* sum of earnedPoints over the results of a noteScores map
RECURSIVE SumEarned(_)
SumEarned(noteScores) ==
    IF DOMAIN noteScores = {} THEN 0
    ELSE LET k == CHOOSE x \in DOMAIN noteScores : TRUE
         IN  noteScores[k].earnedPoints + SumEarned(MapDelete(noteScores, k))

\* C1: in every reachable state of a session, every player's running score
\* equals the sum of earnedPoints over the NoteResults recorded in that
\* player's noteScores map.
C1_ScoreIsSumOfNoteScores ==
    \A i \in 1..Len(players) :
        players[i].score = SumEarned(players[i].noteScores)

\* C2: while the session plays and ticks, every note that was a player's
\* current note at some tick (it has a sample buffer) and that the session
\* has moved on from has a NoteResult recorded for that player, also when
\* the following note starts at the time the note ends.
C2_LeftNoteHasResult ==
    \A i \in 1..Len(players) :
        \A n \in DOMAIN notePitchSamples[players[i].id] :
            currentNoteIndices[players[i].id] # n
                => n \in DOMAIN players[i].noteScores

\* C3: for every player and note index, the scorer's result is added to the
\* player's score at most once: a tick that closes a note out (the in-flight
\* index goes from the note to -1) never finds a result of that note recorded
\* already.
C3_ScoredAtMostOnce ==
    [][ \A i \in 1..Len(players) :
            LET id == players[i].id
            IN  ( /\ id \in DOMAIN currentNoteIndices'
                  /\ currentNoteIndices[id] >= 0
                  /\ currentNoteIndices'[id] = -1 )
                => currentNoteIndices[id] \notin DOMAIN players[i].noteScores
      ]_vars

\* C4: start() is accepted, and later moves the session to playing, only
\* when called in ready or paused; called in any other state it throws
\* "Game not ready to start", leaves the state alone, plays no media and
\* schedules no tick.  The state becomes playing only by an accepted start()
\* completing or by resume() from paused.
C4_StartOnlyFromReadyOrPaused ==
    [][ /\ \A s \in StartSlots :
              StartCall(s) =>
                  IF state = "ready" \/ state = "paused"
                  THEN startCalls'[s].pc # "idle" /\ thrown' = "none"
                  ELSE /\ thrown' = "Game not ready to start"
                       /\ UNCHANGED << state, audioElement, rafPending,
                                       animationFrameId, startCalls >>
        /\ (state # "playing" /\ state' = "playing") =>
              \/ state = "paused"
              \/ \E s \in StartSlots :
                     startCalls[s].pc # "idle" /\ startCalls'[s].pc = "idle"
      ]_vars

\* start() was called on a finished session and threw
C4_StartRefusedWhenFinished ==
    /\ thrown = "Game not ready to start"
    /\ state = "finished"
    /\ rafPending = {}
    /\ \A s \in StartSlots : startCalls[s].pc = "idle"

\* C5: finished is terminal: no operation on a finished session changes its
\* state.
C5_FinishedIsTerminal ==
    [][ state = "finished" => state' = "finished" ]_vars

\* the stereo inputs of device d that are connected
StereoInputs(d) ==
    {ch \in {"left", "right"} : Has(streams, getMicrophoneInputId(d, ch))}

\* the live stereo capture streams of device d
LiveStereo(d) ==
    {i \in LiveStreams(phys) : phys[i].deviceId = d /\ phys[i].stereo}

\* C6: with sequential calls, a stereo device whose channels are connected
\* has exactly one live capture stream, shared with a reference count equal
\* to the number of its connected channels (2 after left and right, 1 after
\* either is disconnected); with no channel connected its stream is stopped
\* and the shared entry is gone.
C6_SharedStreamRefCount ==
    routerCall.pc = "idle" =>
        \A d \in DeviceIds :
            IF StereoInputs(d) = {}
            THEN ~Has(sharedStreams, d) /\ LiveStereo(d) = {}
            ELSE /\ Has(sharedStreams, d)
                 /\ sharedStreams[d].refCount = Cardinality(StereoInputs(d))
                 /\ LiveStereo(d) = {sharedStreams[d].stream}

\* left and right of device A are connected on one capture stream
C6_BothChannelsOnOneStream ==
    /\ routerCall.pc = "idle"
    /\ StereoInputs(<<"A">>) = {"left", "right"}
    /\ sharedStreams[<<"A">>].refCount = 2
    /\ Cardinality({i \in 1..Len(phys) : phys[i].deviceId = <<"A">>}) = 1

\* C7: after stop() or dispose(), no update() runs unless start() or
\* resume() is called afterwards, whatever start() call was suspended when
\* stop() or dispose() ran.
C7_NoTickAfterStopOrDispose == tickedHalted = FALSE

\* C8: after stop() or dispose(), no capture stream opened for the session's
\* players is live.
C8_StreamsStoppedAfterHalt ==
    halt # "none" => LiveStreams(phys) = {}

\* the chart of track 2 exists
TrackTwoChartExists == song # NoSong /\ Len(song.notes_p2) > 0

\* C9: addPlayer without a track binds the first player to track 1, the next
\* player to track 2 if the chart has a track 2 that no player is bound to,
\* and every further player to track 1; an explicit track is bound as given.
C9_DefaultTrackAssignment ==
    [][ Len(players') = Len(players) + 1 =>
            LET id == players'[Len(players')].id
            IN  playerTracks'[id] =
                    IF lastTrackArg' # 0 THEN lastTrackArg'
                    ELSE IF Len(players) = 0 THEN 1
                    ELSE IF /\ TrackTwoChartExists
                            /\ \A q \in DOMAIN playerTracks : playerTracks[q] # 2
                         THEN 2
                    ELSE 1
      ]_vars

\* C10: once the media reported an error to loadSong, the session is in
\* loading with no chart timeline bound, and stays so.
C10_LoadFailureStaysLoading ==
    loadCall = "rejected" => state = "loading" /\ DOMAIN noteTrackers = {}

\* C11: connect is idempotent: connectMicrophone called for an input that is
\* connected returns the input that exists (the same capture stream), opens
\* no capture stream and changes no reference count, neither when it is
\* called nor when it returns.
C11_ConnectIsIdempotent ==
    [][ /\ (routerCall.pc = "idle" /\ routerCall'.pc # "idle"
            /\ Has(streams, getMicrophoneInputId(routerCall'.deviceId,
                                                 routerCall'.channel)))
           => /\ routerCall'.pc = "ret"
              /\ routerCall'.stream =
                    streams[getMicrophoneInputId(routerCall'.deviceId,
                                                 routerCall'.channel)].stream
              /\ UNCHANGED << streams, sharedStreams, phys >>
        /\ routerCall.pc = "ret"
           => routerCall'.pc = "idle" /\ UNCHANGED << streams, sharedStreams, phys >>
      ]_vars

\* connectMicrophone(A, left) was called a second time while A:left and
\* A:right are connected: the call is about to return the existing input
C11_SecondConnectReturnsExisting ==
    /\ routerCall.pc = "ret"
    /\ routerCall.deviceId = <<"A">> /\ routerCall.channel = "left"
    /\ StereoInputs(<<"A">>) = {"left", "right"}
    /\ routerCall.stream = streams[<<"A", "left">>].stream
    /\ sharedStreams[<<"A">>].refCount = 2
    /\ Len(phys) = 1

\* C12: when getUserMedia fails for a player during start(), start() does
\* not reject: it goes on to connect the next player its iteration has not
\* reached, or, none being left, plays the media, enters playing and has a
\* frame of the tick loop pending.
C12_CaptureFailureIsIsolated ==
    [][ \A s \in StartSlots :
            ( /\ startCalls[s].pc = "gum"
              /\ startCalls'[s] # startCalls[s]
              /\ phys' = phys )
            => /\ thrown' = "none"
               /\ IF PlayerIdSet \subseteq startCalls[s].visited
                  THEN /\ startCalls'[s].pc = "idle"
                       /\ state' = "playing"
                       /\ animationFrameId' \in rafPending'
                       /\ ~audioElement'.paused
                  ELSE /\ startCalls'[s].pc # "idle"
                       /\ startCalls[s].visited \subseteq startCalls'[s].visited
                       /\ startCalls'[s].visited # startCalls[s].visited
                       /\ startCalls'[s].visited \subseteq PlayerIdSet
      ]_vars

\* the session plays and ticks with two players: the first one's input
\* failed to open, the second one's is connected
C12_PlayingAfterFailedInput ==
    /\ state = "playing"
    /\ animationFrameId \in rafPending
    /\ \A s \in StartSlots : startCalls[s].pc = "idle"
    /\ Len(players) = 2
    /\ ~Has(streams, players[1].microphoneId)
    /\ Has(streams, players[2].microphoneId)
    /\ LiveStreams(phys) # {}

\* C13: when the media signals its end, the state becomes finished and no
\* frame of the tick loop is pending; and, whatever start(), pause() and
\* resume() calls came before, the session then stays finished with no frame
\* pending, so that no tick executes afterwards.
C13_NoTickAfterEndOfMedia ==
    [][ /\ MediaEnded => state' = "finished" /\ rafPending' = {}
        /\ (state = "finished" /\ rafPending = {})
              => (state' = "finished" /\ rafPending' = {})
      ]_vars

\* C14: dispose() is idempotent: a dispose() on a session that was disposed
\* of raises no error and changes nothing: state, media element, pending
\* frames, inputs, capture streams and audio context stay as they were.
C14_DisposeIsIdempotent ==
    [][ (ctxState = "closed" /\ Dispose)
            => /\ thrown' = "none"
               /\ UNCHANGED << state, audioElement, ctxState, rafPending,
                               animationFrameId, streams, sharedStreams, phys >>
      ]_vars

\* C15: pause() in any state other than playing, and resume() in any state
\* other than paused, are no-ops: the state, the media element's play/pause
\* status, the scheduled frames and the loop handle are unchanged, nothing is
\* thrown and onStateChange is not called.
C15_PauseResumeNoOps ==
    [][ /\ (state # "playing" /\ Pause)
            => /\ UNCHANGED << state, audioElement, rafPending, animationFrameId >>
               /\ notified' = "none" /\ thrown' = "none"
        /\ (state # "paused" /\ Resume)
            => /\ UNCHANGED << state, audioElement, rafPending, animationFrameId >>
               /\ notified' = "none" /\ thrown' = "none"
      ]_vars

\* a paused session whose latest step called nothing back and threw
\* nothing, as after a pause() on a session that is paused: media paused,
\* no frame scheduled
C15_QuietStepWhilePaused ==
    /\ state = "paused"
    /\ notified = "none" /\ thrown = "none"
    /\ audioElement.loaded /\ audioElement.paused
    /\ rafPending = {}

\* C16: a player whose input is not connected (its capture failed to open)
\* reads -1 on every tick: its current pitch and every sample it buffered
\* are -1, every note result recorded for it has earnedPoints 0 and its
\* score is 0.  (In SpecUnconnected no input is ever disconnected, so an
\* input that is not connected now was never connected.)
C16_UnconnectedPlayerScoresNothing ==
    \A i \in 1..Len(players) :
        ~Has(streams, players[i].microphoneId) =>
            /\ players[i].score = 0
            /\ players[i].currentPitch = -1
            /\ players[i].pitchHistory = << >>
            /\ \A k \in DOMAIN players[i].noteScores :
                   players[i].noteScores[k].earnedPoints = 0
            /\ \A k \in DOMAIN notePitchSamples[players[i].id] :
                   \A j \in 1..Len(notePitchSamples[players[i].id][k]) :
                       notePitchSamples[players[i].id][k][j] = -1

\* no capture stream was ever opened, the session went on, and a note that
\* awards points was closed for the player with nothing earned
C16_NoteClosedWithoutInput ==
    /\ phys = << >>
    /\ state \in {"playing", "finished"}
    /\ \A s \in StartSlots : startCalls[s].pc = "idle"
    /\ \E i \in 1..Len(players) :
          \E k \in DOMAIN players[i].noteScores :
              /\ players[i].noteScores[k].maxPoints > 0
              /\ players[i].noteScores[k].earnedPoints = 0

\* C17: the scores and the note results do not depend on the order in which
\* update() visits the players: for the same clock readings and the same
\* frames, the session that visits them in the opposite order has the same
\* score and the same note results for every player, also when players
\* share an input id.
C17_ScoresIndependentOfOrder ==
    \A id \in PlayerIdSet :
        Has(reversed.scoring, id) =>
            /\ reversed.scoring[id].player.score = PlayerOf(id).score
            /\ reversed.scoring[id].player.noteScores = PlayerOf(id).noteScores

\* the octave-folded distance, in tenths of a semitone, between a frequency
\* and a note's pitch
FoldedDistance10(frequency, pitch) ==
    LET d == Abs(frequencyToMidi10(frequency) - ultrastarPitchToMidi10(pitch)) % 120
    IN  IF d > 60 THEN 120 - d ELSE d

\* the band weight, in tenths, of a sample with a detected frequency
BandWeight10(frequency, pitch) ==
    LET d == FoldedDistance10(frequency, pitch)
    IN  IF d <= 5 THEN 10 ELSE IF d <= 15 THEN 9 ELSE IF d <= 25 THEN 7
        ELSE IF d <= 35 THEN 4 ELSE 0

\* the sum of the band weights of the samples with frequency > 0
RECURSIVE SumBandWeights10(_, _)
SumBandWeights10(samples, pitch) ==
    IF samples = << >> THEN 0
    ELSE (IF Head(samples) > 0 THEN BandWeight10(Head(samples), pitch) ELSE 0)
         + SumBandWeights10(Tail(samples), pitch)

\* how many samples have frequency > 0
CountDetected(samples) == Cardinality({i \in 1..Len(samples) : samples[i] > 0})

\* length * 10, doubled for golden and golden rap notes
ExpectedMaxPoints(note) ==
    note.length * 10 * (IF note.note_type \in {"golden", "goldenrap"} THEN 2 ELSE 1)

\* C18: for a normal or golden note with at least one sample, accuracy is
\* min(1, W + B), W the mean band weight of the samples with frequency > 0
\* and B 0.1 if there is such a sample, else 0; earnedPoints is
\* round(maxPoints * accuracy); if every sample is on the note's pitch
\* class, accuracy is 1 and earnedPoints is maxPoints.
C18_WeightedAccuracy ==
    LET note    == scorerCall.note
        samples == scorerCall.samples
        result  == scorerCall.result
        n       == CountDetected(samples)
        \* W + B = (sum of weights10 + n) / (10 n)
        over    == n > 0 /\ SumBandWeights10(samples, note.pitch) + n > 10 * n
        num     == IF n = 0 THEN 0 ELSE IF over THEN 1
                   ELSE SumBandWeights10(samples, note.pitch) + n
        den     == IF n = 0 \/ over THEN 1 ELSE 10 * n
    IN  (/\ result # NoResult
         /\ note.note_type \in {"normal", "golden"}
         /\ Len(samples) >= 1)
        => /\ result.maxPoints = ExpectedMaxPoints(note)
           /\ result.accNum * den = num * result.accDen
           /\ result.earnedPoints = RoundDiv(result.maxPoints * num, den)
           /\ (\A i \in 1..Len(samples) :
                  samples[i] > 0 /\ FoldedDistance10(samples[i], note.pitch) = 0)
              => /\ result.accNum = result.accDen
                 /\ result.earnedPoints = result.maxPoints

\* a golden note scored on a silent sample, a sample three semitones off
\* and one a semitone off: accuracy strictly between 0 and 1
C18_PartialCreditGiven ==
    /\ scorerCall.result # NoResult
    /\ scorerCall.note.note_type = "golden"
    /\ scorerCall.samples = << -1, 311, 277 >>
    /\ scorerCall.note.pitch = 0
    /\ scorerCall.result.earnedPoints > 0
    /\ scorerCall.result.earnedPoints < scorerCall.result.maxPoints

\* C19: for a rap or golden rap note, accuracy is the number of samples with
\* frequency > 0 over the number of samples, whatever the note's pitch and
\* the frequencies, and 0 without samples; earnedPoints is
\* round(maxPoints * accuracy), maxPoints doubled for golden rap.
C19_RapAccuracy ==
    LET note    == scorerCall.note
        samples == scorerCall.samples
        result  == scorerCall.result
        n       == CountDetected(samples)
    IN  (result # NoResult /\ note.note_type \in {"rap", "goldenrap"})
        => /\ result.maxPoints = ExpectedMaxPoints(note)
           /\ IF Len(samples) = 0
              THEN result.accNum = 0 /\ result.earnedPoints = 0
              ELSE /\ result.accNum * Len(samples) = n * result.accDen
                   /\ result.earnedPoints =
                         RoundDiv(result.maxPoints * n, Len(samples))

\* a golden rap note of two beats scored on two detected samples of three:
\* round(40 * 2 / 3) = 27 points
C19_GoldenRapTwoOfThree ==
    /\ scorerCall.result # NoResult
    /\ scorerCall.note.note_type = "goldenrap"
    /\ scorerCall.note.length = 2
    /\ Len(scorerCall.samples) = 3
    /\ CountDetected(scorerCall.samples) = 2
    /\ scorerCall.result.maxPoints = 40
    /\ scorerCall.result.earnedPoints = 27

\* the score of a player after update() closes the scorer's note for it,
\* the player having `score` points and the note's samples in its buffer
ScoreAfterClosing(score) ==
    LET gameNotes == processNotes(<< scorerCall.note >>, 3, 0)
    IN  UpdatePlayerIn([NewPlayer(1, <<"A">>) EXCEPT !.score = score],
                       gameNotes, 0, MapSet(<< >>, 0, scorerCall.samples),
                       gameNotes[1].endTimeMs + 1, -1).player.score

\* C20: for a freestyle note the result has maxPoints 0, earnedPoints 0 and
\* accuracy 1 whatever the samples and the note's length, and closing the
\* note leaves the player's score as it was.
C20_FreestyleScoresNothing ==
    (scorerCall.result # NoResult /\ scorerCall.note.note_type = "freestyle")
    => /\ scorerCall.result.maxPoints = 0
       /\ scorerCall.result.earnedPoints = 0
       /\ scorerCall.result.accNum = scorerCall.result.accDen
       /\ scorerCall.result.accDen > 0
       /\ \A score \in {0, 7} : ScoreAfterClosing(score) = score

\* a freestyle note of two beats scored on three samples on pitch
C20_FreestyleOnPitch ==
    /\ scorerCall.result # NoResult
    /\ scorerCall.note.note_type = "freestyle"
    /\ scorerCall.note.length = 2
    /\ scorerCall.samples = << 262, 262, 262 >>
    /\ scorerCall.note.pitch = 0
    /\ scorerCall.result.earnedPoints = 0

\* C21: the scorer's result is bounded for every note type, every note
\* length from 0 and every sample sequence: 0 <= accuracy <= 1 and
\* 0 <= earnedPoints <= maxPoints.
C21_ResultIsBounded ==
    scorerCall.result # NoResult
    => /\ scorerCall.result.accDen > 0
       /\ 0 <= scorerCall.result.accNum
       /\ scorerCall.result.accNum <= scorerCall.result.accDen
       /\ 0 <= scorerCall.result.earnedPoints
       /\ scorerCall.result.earnedPoints <= scorerCall.result.maxPoints

\* a normal note scored on two samples on pitch: mean weight 1.0 plus the
\* bonus is above 1, and the result is accuracy 1 and all the points
C21_BonusAboveOneIsCapped ==
    /\ scorerCall.result # NoResult
    /\ scorerCall.note.note_type = "normal"
    /\ scorerCall.note.length = 2
    /\ scorerCall.note.pitch = 0
    /\ scorerCall.samples = << 262, 262 >>
    /\ scorerCall.result.accNum = scorerCall.result.accDen
    /\ scorerCall.result.earnedPoints = 20

\* the sum, over the notes that are not freestyle, of length * 10, doubled
\* for golden and golden rap notes
RECURSIVE SumExpectedMaxPoints(_)
SumExpectedMaxPoints(notes) ==
    IF notes = << >> THEN 0
    ELSE (IF Head(notes).note_type = "freestyle" THEN 0
          ELSE ExpectedMaxPoints(Head(notes)))
         + SumExpectedMaxPoints(Tail(notes))

\* the sum of the maxPoints of the results of scoring every note of the
\* chart on the same samples
RECURSIVE SumResultMaxPoints(_, _)
SumResultMaxPoints(notes, samples) ==
    IF notes = << >> THEN 0
    ELSE calculateNoteScore(Head(notes), 0, samples).maxPoints
         + SumResultMaxPoints(Tail(notes), samples)

\* sample sequences: none, silence, on pitch, off pitch and silence
SomeSamples == { << >>, << -1 >>, << 262 >>, << 330, -1 >> }

\* C22: calculateMaxScore(notes) is the sum over the notes that are not
\* freestyle of length * 10 * (2 for golden and golden rap, else 1), and so
\* equals the sum of the maxPoints of the notes' results, whatever the
\* samples.
C22_MaxScoreIsSumOfMaxPoints ==
    chartCall.maxScore # -1
    => /\ chartCall.maxScore = SumExpectedMaxPoints(chartCall.notes)
       /\ \A samples \in SomeSamples :
              chartCall.maxScore = SumResultMaxPoints(chartCall.notes, samples)

\* the maximum of a chart with a golden rap note of two beats, a freestyle
\* note of two beats and a normal note of one beat: 40 + 0 + 10
C22_MixedChartMaximum ==
    /\ chartCall.maxScore = 50
    /\ Len(chartCall.notes) = 3
    /\ chartCall.notes[1].note_type = "goldenrap" /\ chartCall.notes[1].length = 2
    /\ chartCall.notes[2].note_type = "freestyle" /\ chartCall.notes[2].length = 2
    /\ chartCall.notes[3].note_type = "normal" /\ chartCall.notes[3].length = 1

\* the concatenation of the phrases' note lists, in order
RECURSIVE ConcatPhraseNotes(_)
ConcatPhraseNotes(phrases) ==
    IF phrases = << >> THEN << >>
    ELSE Head(phrases).notes \o ConcatPhraseNotes(Tail(phrases))

\* C23: for every chart with notes ordered by start beat and ordered line
\* breaks (before the first note, several between two notes, after the last
\* note), the phrases partition the notes: their note lists concatenated in
\* order are the note list, and no phrase is empty; a chart without notes
\* has no phrases and duration 0.
C23_PhrasesPartitionNotes ==
    chartCall.tracker # NoTracker
    => /\ ConcatPhraseNotes(chartCall.tracker.phrases) = chartCall.tracker.notes
       /\ chartCall.tracker.notes = processNotes(chartCall.notes, 3, 0)
       /\ \A i \in 1..Len(chartCall.tracker.phrases) :
              Len(chartCall.tracker.phrases[i].notes) > 0
       /\ Len(chartCall.notes) = 0
          => /\ chartCall.tracker.phrases = << >>
             /\ getSongDuration(chartCall.tracker.notes) = 0

\* three notes on beats 1, 2 and 3 with a line break before the first, two
\* between the first and the second: two phrases, of one and of two notes
C23_TwoPhrasesBuilt ==
    /\ chartCall.tracker # NoTracker
    /\ Len(chartCall.notes) = 3
    /\ chartCall.notes[1].start_beat = 1
    /\ chartCall.notes[2].start_beat = 2
    /\ chartCall.notes[3].start_beat = 3
    /\ chartCall.lineBreaks = << [start_beat |-> 0], [start_beat |-> 2],
                                 [start_beat |-> 2] >>
    /\ Len(chartCall.tracker.phrases) = 2
    /\ Len(chartCall.tracker.phrases[1].notes) = 1
    /\ Len(chartCall.tracker.phrases[2].notes) = 2


\* the reads of pitchReads made on a connected input
ConnectedReads == SelectSeq(pitchReads, LAMBDA e : e.connected)

\* a frame is invalid when the pitch primitive reports no pitch or its RMS
\* is below 0.02; atThreshold tells which side an RMS of exactly 0.02 is on
InvalidFrame(e, atThreshold) ==
    \/ e.rawPitch <= 0
    \/ e.signalStrength < MIN_CONFIDENCE_THRESHOLD
    \/ atThreshold /\ e.signalStrength = MIN_CONFIDENCE_THRESHOLD

\* the pitch-hold rule over the reads made so far: an invalid frame returns
\* the pitch of the latest valid frame when that lies less than 180 ms back,
\* and -1 otherwise; after an invalid frame 180 ms or more behind the latest
\* valid one the hold is cleared
PitchHoldRule(atThreshold) ==
    LET reads == ConnectedReads
        n == Len(reads)
        ValidBefore(i) == {j \in 1..(i - 1) : ~InvalidFrame(reads[j], atThreshold)}
        LastValid(i) == CHOOSE j \in ValidBefore(i) : \A k \in ValidBefore(i) : k <= j
    IN  /\ \A i \in 1..n :
              InvalidFrame(reads[i], atThreshold) =>
                  IF ValidBefore(i) = {}
                  THEN reads[i].pitch = -1
                  ELSE IF reads[i].now - reads[LastValid(i)].now < PITCH_HOLD_TIME_MS
                  THEN /\ reads[i].pitch = reads[LastValid(i)].pitch
                       /\ reads[i].pitch > 0
                  ELSE reads[i].pitch = -1
        /\ (/\ n > 0
            /\ InvalidFrame(reads[n], atThreshold)
            /\ ValidBefore(n) # {}
            /\ reads[n].now - reads[LastValid(n)].now >= PITCH_HOLD_TIME_MS)
           => pitchStates[reads[n].inputId].holdPitch = -1

\* C24: a frame is invalid when its RMS is below 0.02 or no pitch is
\* detected.  With no held value an invalid frame returns -1; an invalid
\* frame less than 180 ms after the latest valid frame returns the held
\* pitch (> 0); the first invalid frame 180 ms or more after it returns -1
\* and clears the hold, so that later invalid frames return -1 until the
\* next valid frame.
C24_PitchHold == PitchHoldRule(FALSE)

\* the same rule when a frame whose RMS is exactly 0.02 counts as invalid
C24_PitchHoldAtOrBelow == PitchHoldRule(TRUE)

\* a pitch was held, then the hold ran out and a later invalid frame
\* returned -1 again
C24_HoldRanOut ==
    LET reads == ConnectedReads
    IN  /\ Len(reads) = 4
        /\ ~InvalidFrame(reads[1], TRUE)
        /\ \A i \in 2..4 : InvalidFrame(reads[i], TRUE)
        /\ reads[2].pitch = reads[1].pitch
        /\ reads[3].pitch = -1
        /\ reads[4].pitch = -1

\* the clock does not go back, and no note of any track starts in
\* (getCurrentTime, getCurrentTime'], the stretch the step jumped over
ForwardShortOfNextNote ==
    /\ getCurrentTime' >= getCurrentTime
    /\ \A k \in DOMAIN noteTrackers : \A i \in 1..Len(noteTrackers[k]) :
           ~(/\ noteTrackers[k][i].startTimeMs > getCurrentTime
             /\ noteTrackers[k][i].startTimeMs <= getCurrentTime')

\* C25: a seek or skip never moves the session clock backward and never
\* lands after the start of the earliest upcoming note of any track: after
\* seekTo(t) or the skip action taken at clock c the clock is >= c and no
\* note of track 1 or 2 starts in (c, new clock].
C25_SeekAndSkipStopShortOfNextNote ==
    [][((\E t \in GappedSeekTargets : SeekTo(t)) \/ Skip)
           => ForwardShortOfNextNote]_vars

\* the same for the skip action alone
C25_SkipStopsShortOfNextNote == [][Skip => ForwardShortOfNextNote]_vars

\* the step in which the start() call of slot s, its last await settled,
\* plays the media and enters the tick loop
EntersLoop(s) ==
    /\ startCalls[s].pc # "idle"
    /\ startCalls'[s].pc = "idle"
    /\ notified' = "playing"
    /\ rafPending' # rafPending

\* every player of the session was reached by the connect loop of the
\* start() call of slot s, whose latest attempt settles in this step
AttemptsSettled(s) ==
    /\ startCalls[s].pc \in {"resume", "ctxresume", "ret", "gum", "init"}
    /\ PlayerIdSet \subseteq startCalls[s].visited

\* C26: no tick executes for a start() call before the media element has
\* reported that it can play through (loadSong resolved) and every player's
\* connect attempt issued by that start() has settled: start() enters the
\* tick loop, and a tick runs, only with loadSong resolved, and start()
\* enters the loop only when its attempts have settled.
C26_NoTickBeforeLoadAndConnect ==
    [][/\ \A s \in StartSlots :
              EntersLoop(s) => (loadCall = "resolved" /\ AttemptsSettled(s))
       /\ (\E c \in LoopIds : Tick(c, Pitches)) => loadCall = "resolved"]_vars

\* the part about the connect attempts alone
C26_NoLoopBeforeConnectSettled ==
    [][\A s \in StartSlots : EntersLoop(s) => AttemptsSettled(s)]_vars

\* C27: after every tick at clock time T every sample of every player's
\* pitchHistory has timeMs > T - 5000, whether or not the player produced a
\* detectable pitch on that tick.
C27_HistoryWithinWindowAfterTick ==
    [][(\E c \in LoopIds : Tick(c, Pitches)) =>
          \A i \in 1..Len(players') :
              \A k \in 1..Len(players'[i].pitchHistory) :
                  players'[i].pitchHistory[k].timeMs
                      > getCurrentTime - HISTORY_WINDOW_MS]_vars

\* the same for the ticks on which the player produced a pitch
C27_HistoryWithinWindowAfterPitch ==
    [][(\E c \in LoopIds : Tick(c, Pitches)) =>
          \A i \in 1..Len(players') :
              players'[i].currentPitch > 0 =>
                  \A k \in 1..Len(players'[i].pitchHistory) :
                      players'[i].pitchHistory[k].timeMs
                          > getCurrentTime - HISTORY_WINDOW_MS]_vars

\* the tick of this step closes the note in flight for player id
ClosesNote(id) ==
    /\ \E c \in LoopIds : Tick(c, Pitches)
    /\ currentNoteIndices[id] >= 0
    /\ currentNoteIndices'[id] = -1

\* C28: after the tick that closes out a player's just-finished note that
\* player's pending sample buffer for the note is empty, so that a note
\* that becomes current again is scored only from the samples collected
\* after the re-entry.
C28_BufferEmptyAfterCloseOut ==
    [][\A id \in PlayerIdSet :
          ClosesNote(id) =>
              \/ ~Has(notePitchSamples'[id], currentNoteIndices[id])
              \/ notePitchSamples'[id][currentNoteIndices[id]] = << >>]_vars

\* C29: a note that is in flight for a player when the session is stopped,
\* disposed or finished is never scored afterwards: no later tick, the first
\* tick after a subsequent start() included, records a NoteResult or adds
\* points for that note from the samples collected before the stop.
C29_InFlightNoteNotScoredAfterHalt ==
    [][\A id \in PlayerIdSet : ~(ClosesNote(id) /\ id \in inFlightAtHalt)]_vars

\* the tick of this step runs update() while the clock is past the end of
\* the note in flight for player id
TicksPastInFlightNote(id) ==
    /\ \E c \in LoopIds : Tick(c, Pitches)
    /\ Has(noteTrackers, 1) /\ song # NoSong
    /\ currentNoteIndices[id] >= 0
    /\ TrackerOf(id)[currentNoteIndices[id] + 1].endTimeMs < getCurrentTime

\* the tick closes the note in flight for player id and scores it from the
\* samples buffered before the tick, to which it adds none
ClosedFromBufferedSamples(id) ==
    LET n       == currentNoteIndices[id]
        samples == IF Has(notePitchSamples[id], n)
                   THEN notePitchSamples[id][n] ELSE << >>
        result  == calculateNoteScore(TrackerOf(id)[n + 1], n, samples)
        after   == players'[PlayerIndex(id)]
    IN  /\ currentNoteIndices'[id] = -1
        /\ Has(after.noteScores, n)
        /\ after.noteScores[n] = result
        /\ after.score = PlayerOf(id).score + result.earnedPoints
        /\ notePitchSamples'[id] = notePitchSamples[id]

\* C30: when a skip moves the clock past the end of a note that is in
\* flight for a player, the note is closed on the next tick and scored from
\* exactly the samples collected before the skip, with zero or partial
\* credit: no samples are attributed to the skipped remainder and the note
\* is not scored as fully sung.
C30_SkippedNoteClosedWithPartialCredit ==
    [][\A id \in PlayerIdSet :
          TicksPastInFlightNote(id) =>
              /\ ClosedFromBufferedSamples(id)
              /\ LET result == players'[PlayerIndex(id)].noteScores[currentNoteIndices[id]]
                 IN  result.maxPoints > 0 => result.earnedPoints < result.maxPoints]_vars

\* the same without the bound on the credit
C30_SkippedNoteClosedFromPreSkipSamples ==
    [][\A id \in PlayerIdSet :
          TicksPastInFlightNote(id) => ClosedFromBufferedSamples(id)]_vars

\* the phrases of the tracker built whose window, from 2000 ms before the
\* first note to 500 ms after the last, holds timeMs
PhrasesInWindow(timeMs) ==
    {i \in 1..Len(chartCall.tracker.phrases) :
        /\ chartCall.tracker.phrases[i].startTimeMs - 2000 <= timeMs
        /\ timeMs <= chartCall.tracker.phrases[i].endTimeMs + 500}

\* C31: currentPhrase(t) returns a phrase p only if p.start - 2000 <= t <=
\* p.end + 500, returns none exactly when no phrase satisfies this, and when
\* the windows of two consecutive phrases overlap at t it returns the
\* earlier one, so that the later phrase is current only once t is more than
\* 500 ms past the earlier phrase's last note.
C31_CurrentPhraseWindow ==
    chartCall.query.op = "getCurrentPhrase" =>
        LET phrases == chartCall.tracker.phrases
            t       == chartCall.query.timeMs
            p       == chartCall.query.phrase
            hits    == PhrasesInWindow(t)
        IN  /\ p # NoNote => \E i \in hits : p = phrases[i]
            /\ p = NoNote <=> hits = {}
            /\ \A i \in hits : (i + 1) \in hits =>
                   /\ p # phrases[i + 1]
                   /\ (i - 1) \notin hits => p = phrases[i]
            /\ \A i \in 1..(Len(phrases) - 1) :
                   p = phrases[i + 1] => t > phrases[i].endTimeMs + 500

\* two phrases on consecutive beats, asked at the first instant of the
\* second one's window, which the first one's still holds: the first is
\* current
C31_EarlierOfTwoOverlapping ==
    /\ chartCall.query.op = "getCurrentPhrase"
    /\ Len(chartCall.tracker.phrases) = 2
    /\ chartCall.query.timeMs = chartCall.tracker.phrases[2].startTimeMs - 2000
    /\ PhrasesInWindow(chartCall.query.timeMs) = {1, 2}
    /\ chartCall.query.phrase = chartCall.tracker.phrases[1]

\* C32: if currentPhrase(t) is phrase number i, nextPhrase(t) is phrase
\* i + 1 (none if i is the last); with no current phrase it is the first
\* phrase in order whose start is strictly greater than t (none if there is
\* none).  So nextPhrase(t) is never the current phrase nor one before it.
C32_NextPhraseFollowsCurrent ==
    chartCall.query.op = "getNextPhrase" =>
        LET phrases == chartCall.tracker.phrases
            t       == chartCall.query.timeMs
            p       == chartCall.query.phrase
            hits    == PhrasesInWindow(t)
            current == CHOOSE i \in hits : \A j \in hits : i <= j
            later   == {i \in 1..Len(phrases) : phrases[i].startTimeMs > t}
        IN  IF hits # {}
            THEN /\ current < Len(phrases) => p = phrases[current + 1]
                 /\ current = Len(phrases) => p = NoNote
                 /\ \A i \in 1..current : p # phrases[i]
            ELSE /\ later = {} => p = NoNote
                 /\ later # {} =>
                        p = phrases[CHOOSE i \in later : \A j \in later : i <= j]

\* the first of two phrases is still current 500 ms after its last note,
\* when the second has started already: the second is the next phrase
C32_NextPhraseHasStarted ==
    /\ chartCall.query.op = "getNextPhrase"
    /\ Len(chartCall.tracker.phrases) = 2
    /\ chartCall.query.timeMs = chartCall.tracker.phrases[1].endTimeMs + 500
    /\ chartCall.tracker.phrases[2].startTimeMs <= chartCall.query.timeMs
    /\ chartCall.query.phrase = chartCall.tracker.phrases[2]
\* the connected stereo channels of a device
ConnectedChannels(d) ==
    {ch \in {"left", "right"} : Has(streams, getMicrophoneInputId(d, ch))}

\* the capture streams of a device that are running
RunningStreams(d) == {i \in LiveStreams(phys) : phys[i].deviceId = d}

\* C33: overlapping connects are safe.  Once two connectMicrophone calls that
\* were in flight together (the second made before the capture request of
\* the first had resolved)
\* have both settled, every device has at most one running stereo capture
\* stream and at most one running mono capture stream, the reference count of
\* its shared stream equals the number of its connected channels, and a device
\* with no connected input has no running capture stream.
C33_OverlappingConnectsShareOneStream ==
    (routerCall.pc = "idle" /\ secondCall.pc = "idle") =>
        \A d \in DeviceIds :
            /\ Cardinality({i \in RunningStreams(d) : phys[i].stereo}) <= 1
            /\ Cardinality({i \in RunningStreams(d) : ~phys[i].stereo}) <= 1
            /\ ConnectedChannels(d) # {} =>
                   /\ Has(sharedStreams, d)
                   /\ sharedStreams[d].refCount = Cardinality(ConnectedChannels(d))
            /\ (/\ ConnectedChannels(d) = {}
                /\ ~Has(streams, getMicrophoneInputId(d, "mono")))
                   => RunningStreams(d) = {}

\* C33, the last part alone: when both calls have settled and both inputs
\* have been disconnected, no capture stream of the device is running.
C33_NoStreamLeftAfterDisconnect ==
    (routerCall.pc = "idle" /\ secondCall.pc = "idle" /\ DOMAIN streams = {})
        => LiveStreams(phys) = {}
\* C34: at most one tick loop is scheduled at any time, whatever the order of
\* start(), resume(), pause() and stop() and whether or not a start() is
\* suspended when they come; and a pause() of a playing session, or a stop(),
\* leaves no frame callback pending.
C34_AtMostOneLoop ==
    [][ /\ Cardinality(rafPending') <= 1
        /\ ((state = "playing" /\ Pause) \/ Stop) => rafPending' = {} ]_vars

\* C34, the first part alone: never two frame callbacks pending
C34_NeverTwoCallbacks == Cardinality(rafPending) <= 1

\* C34, the second part alone: nothing pending after pause() or stop()
C34_NonePendingAfterPauseOrStop ==
    [][ ((state = "playing" /\ Pause) \/ Stop) => rafPending' = {} ]_vars
\* the router's books on the shared streams are in order: a device has a
\* shared entry exactly when one of its channels is connected, the count is
\* the number of its connected channels, and the shared stream is running
SharedBooksInOrder ==
    \A d \in DeviceIds :
        /\ Has(sharedStreams, d) <=> StereoInputs(d) # {}
        /\ Has(sharedStreams, d) =>
              /\ sharedStreams[d].refCount = Cardinality(StereoInputs(d))
              /\ sharedStreams[d].refCount \in {1, 2}
              /\ sharedStreams[d].stream \in LiveStreams(phys)

SameRouter(a, b) ==
    /\ a.streams = b.streams
    /\ a.sharedStreams = b.sharedStreams
    /\ LiveStreams(a.phys) = LiveStreams(b.phys)

\* C36: a connectMicrophone that fails, at getUserMedia or at
\* pitchDetector.init(), leaves the router as the call found it: the same
\* inputs, the same shared entries with the same reference counts, and the
\* same capture streams running.
C36_FailedConnectLeavesRouterAsBefore ==
    [][ (RouterGumReject \/ RouterInitReject) => SameRouter(Mic', micAtCall) ]_vars

\* C36, the capture request alone: a rejected getUserMedia leaves the router
\* as the call found it
C36_RejectedCaptureLeavesRouterAsBefore ==
    [][ RouterGumReject => SameRouter(Mic', micAtCall) ]_vars
\* C37: the input id of every connected input parses back into the device id
\* and the channel the input was connected with, also for a mono input whose
\* device id ends in ":left" or ":right".
C37_InputIdRoundTrip ==
    \A id \in DOMAIN streams :
        /\ id = getMicrophoneInputId(streams[id].deviceId, streams[id].channel)
        /\ parseMicrophoneInputId(id) =
              [deviceId |-> streams[id].deviceId, channel |-> streams[id].channel]

\* C37, the teardown: disconnecting a mono input stops its capture stream
C37_MonoDisconnectStopsCapture ==
    [][ \A id \in DOMAIN streams :
          (id \notin DOMAIN streams' /\ streams[id].channel = "mono")
              => ~phys'[streams[id].stream].live ]_vars

\* C38: in every state each player's score is at most the maximum score of
\* the chart of the track the player is bound to, whatever ticks, pauses,
\* resumes, seeks, stops and starts came before.
C38_ScoreAtMostMaxScore ==
    \A i \in 1..Len(players) :
        players[i].score <= getPlayerMaxScore(players[i].id)
====
